---- MODULE Spec2Model ----
(***************************************************************************)
(* The note queue and mixer of cboodle (noteq.c) driven by the run loop of *)
(* an audio sink (audev_loop), as a state machine.                         *)
(*                                                                         *)
(* The run loop calls noteq_generate once per buffer.  noteq_generate      *)
(* first calls the tick callback (run_python_agents); while the callback   *)
(* runs, the embedding may create notes, stop the notes of a channel and   *)
(* shift the timebase.  When the callback returns, the buffer is zeroed    *)
(* and the queue is walked, one note per step.                             *)
(*                                                                         *)
(* Doubles are modelled by exact fixed-point integers: a volume or a pitch *)
(* v is carried as v * 65536.  The channel handles of this development     *)
(* expose `parent' and `ancestors'; they carry no `volume' or `stereo'     *)
(* attribute, which noteq_generate treats as unity.                        *)
(***************************************************************************)
EXTENDS Integers, Sequences, FiniteSets, TLC

\* ---------------------------------------------------------------- bounds
\* A run is bounded by the number of calls the agents make into the mixer
\* (note creations, timebase shifts, channel stops) and by the number of
\* buffers generated.
MaxOps == 3          \* calls made by the agents over one run of Spec
MaxBufs == 2         \* calls of noteq_generate over one run of Spec
MixOps == 2          \* calls made by the agents over one run of SpecMix
MixBufs == 3         \* calls of noteq_generate over one run of SpecMix
LoopOps == 1         \* calls made by the agents over one run of SpecLoop
LoopBufs == 5        \* calls of noteq_generate over one run of SpecLoop
FramesPerBuf == 4    \* audev_get_framesperbuf()
MaxReps == 3         \* largest repetition count asked for
ErrOps == 2          \* calls made by the agents over one run of SpecErr
ErrBufs == 2         \* calls of noteq_generate over one run of SpecErr
SinkOps == 2         \* calls made by the agents over one run of SpecSink
SinkBufs == 2        \* calls of noteq_generate over one run of SpecSink
MaxUnderruns == 2    \* underruns the device reports over one run
bufcount == 2        \* slots of the CoreAudio sink (option buffercount)
CaBufs == 4          \* calls of mixfunc over one run of SpecCA
MaxCallbacks == 4    \* calls of PlaybackIOProc over one run of SpecCA
MaxDataLen == 2      \* bytes of sound data handed to one load_sample call
DurOps == 1          \* calls made by the agents over one run of SpecDur
DurBufs == 2         \* calls of noteq_generate over one run of SpecDur
MaxDuration == 13    \* longest duration asked of note_create_duration
MaxTime == 9         \* largest maxtime of the file sink, in frames
VolOps == 2          \* calls made by the agents over one run of SpecVol
VolBufs == 2         \* calls of noteq_generate over one run of SpecVol
SmpOps == 1          \* notes created over one run of SpecSmp
SmpBufs == 2         \* calls of noteq_generate over one run of SpecSmp

\* ------------------------------------------------------------- constants
FracOne == 65536     \* 0x10000, one in 16.16 fixed point
MaxLPitch == 268435456  \* 0x10000000

NULL == 0
sound_rate == 44100  \* audev_get_soundrate()

\* ----------------------------------------------------------------- state
VARIABLES
  queue,         \* the linked list from `queue', as the sequence of note ids
  note,          \* note[id]: the fields of the note_t created id-th
  last_added,    \* insertion hint: NULL or a note id
  current_time,  \* frame time
  buffer,        \* the long[2*framesperbuf] buffer handed to noteq_generate
  end_time,      \* local of noteq_generate
  nptr,          \* local of noteq_generate: position of the walk in queue
  pc,            \* position of the run loop
  calls,         \* number of noteq_generate calls entered
  ops,           \* number of calls the agents have made
  written,       \* buffers handed to the device
  loopres,       \* what audev_loop returned: "running" until it returns
  hist,          \* hist[id]: what has happened to note id (observation only)
  tick,          \* observation of the tick callback in the current call
  lastop,        \* the operation the last step performed
  rawbuffer,     \* the char[4*framesperbuf] buffer handed to the device
  wframes,       \* local `written' of audev_loop: frames accepted so far
  accepted,      \* frame indices the device took from rawbuffer, in order
  underruns,     \* number of underruns the device has reported
  failed,        \* a device write has failed for good (observation only)
  curtime,       \* file sink: frames written since audev_init_device
  slots,         \* CoreAudio sink: rawbuffer[bx], each with full and buf
  mutex,         \* CoreAudio sink: holder of rawbuffer[bx].mutex
  filling,       \* CoreAudio sink: slot the mixer fills next
  emptying,      \* CoreAudio sink: slot the callback empties next
  started,       \* CoreAudio sink: AudioDeviceStart has been asked for
  bailing,       \* CoreAudio sink: the loop is to stop
  devrun,        \* CoreAudio sink: the device is calling PlaybackIOProc
  cpc,           \* position of the device callback
  cslot,         \* local `buffer' of PlaybackIOProc, as a slot index
  kbx,           \* local `bx' of audev_close_device
  out,           \* what the callback has handed to the device, in order
  released,      \* the slots have been freed
  smp,           \* the fields of the sample_t the sample calls work on
  slast,         \* the sample call the last step made (observation only)
  rng,           \* the ranges vector of the mixer: cap, max and wild
  audevice,      \* CoreAudio sink: "unknown" or the device that is open
  running,       \* AudioQueue sink: the sink is open
  aqueue,        \* AudioQueue sink: the queue, its buffers and its state
  lim            \* the limits and inputs of this run (never changes)

vars == <<queue, note, last_added, current_time, buffer, end_time, nptr, pc,
          calls, ops, written, loopres, hist, tick, lastop,
          rawbuffer, wframes, accepted, underruns, failed, curtime,
          slots, mutex, filling, emptying, started, bailing, devrun, cpc,
          cslot, kbx, out, released, smp, slast, rng, audevice, running,
          aqueue, lim>>

\* The state of the device side of audev_loop.
sinkvars == <<rawbuffer, wframes, accepted, underruns, failed, curtime>>

\* The state of the CoreAudio sink.
cavars == <<slots, mutex, filling, emptying, started, bailing, devrun, cpc,
            cslot, kbx, out, released>>

\* The open flags of the callback sinks and the queue of the AudioQueue.
sessvars == <<audevice, running, aqueue>>

\* The state of the sample the load and unload calls work on.
smpvars == <<smp, slast>>

\* The state of the note queue and of the mixer.
mixvars == <<queue, note, last_added, current_time, buffer, end_time, nptr,
             ops, hist, tick>>

\* ------------------------------------------------------------- arithmetic
Max(a, b) == IF a >= b THEN a ELSE b
Abs(a) == IF a >= 0 THEN a ELSE -a

\* x >> 16 on a signed long (arithmetic shift)
Shr16(x) == x \div FracOne

\* (long)(a/b) for a >= 0, b > 0: the cast truncates
Trunc(a, b) == a \div b

\* a / b as C computes it on longs, and (long)(a/b) of a double of either
\* sign, b > 0: the quotient is truncated towards zero.
CDiv(a, b) == IF a >= 0 THEN a \div b ELSE -((-a) \div b)

\* x >> 14 and x >> 8 on a signed long (arithmetic shift)
Shr14(x) == x \div 16384
Shr8(x) == x \div 256

\* x | 1 on a long
Or1(x) == IF x % 2 = 0 THEN x + 1 ELSE x

RECURSIVE GCD(_, _)
GCD(a, b) == IF b = 0 THEN a ELSE GCD(b, a % b)

\* A double is held as the exact fraction n/d in lowest terms, d > 0.
Frac(n, d) == LET g == GCD(Abs(n), d) IN [n |-> n \div g, d |-> d \div g]
FMul(a, b) == Frac(a.n * b.n, a.d * b.d)
FAdd(a, b) == Frac(a.n * b.d + b.n * a.d, a.d * b.d)
FSub(a, b) == Frac(a.n * b.d - b.n * a.d, a.d * b.d)

\* (long)(x * 65536.0) of the double x
ToFixed(x) == CDiv(x.n * FracOne, x.d)

\* ---------------------------------------------------------------- samples
\* The fields sample_load sets once the data has been converted.
sample_load(numframes, data, loopstart, loopend, numchannels, frnum, frden) ==
  LET noloop == loopstart >= loopend \/ loopstart < 0 \/ loopend < 0
      ls == IF noloop THEN 0 ELSE loopstart
      le == IF noloop THEN 0 ELSE loopend
  IN [numframes |-> numframes, data |-> data,
      numchannels |-> IF numchannels = 1 THEN 1 ELSE 2,
      frnum |-> frnum, frden |-> frden,
      hasloop |-> ~noloop, loopstart |-> ls, loopend |-> le,
      looplen |-> le - ls, loaded |-> TRUE, error |-> FALSE]

\* sample_create: error, loaded, numframes and data are set; malloc leaves
\* the other fields with whatever the memory held (hl: hasloop, g: the rest).
sample_create(hl, g) ==
  [numframes |-> 0, data |-> <<>>, numchannels |-> g, frnum |-> g,
   frden |-> 1, hasloop |-> hl, loopstart |-> g, loopend |-> g,
   looplen |-> g, loaded |-> FALSE, error |-> FALSE]

\* bval ^= 0x80 on a byte
Xor80(b) == IF b >= 128 THEN b - 128 ELSE b + 128

\* The high byte of a sample as a signed multiple of 0x100.
HighValue(b, issigned) ==
  LET bval == IF issigned THEN b ELSE Xor80(b)
  IN IF bval >= 128 THEN (-128 + (bval % 128)) * 256 ELSE bval * 256

\* The k-th value sample_load stores (k from 1), for one or two channels.
\* val |= bval2 adds the low byte: the low eight bits of val are zero.
ConvertValue(data, k, samplebits, issigned, isbigend) ==
  IF samplebits = 8
  THEN HighValue(data[k], issigned)
  ELSE LET first == data[2 * k - 1]
           second == data[2 * k]
           bval == IF isbigend THEN first ELSE second
           bval2 == IF isbigend THEN second ELSE first
       IN HighValue(bval, issigned) + bval2

\* The array snd that sample_load fills.
ConvertData(a) ==
  LET numchanout == IF a.numchannels = 1 THEN 1 ELSE 2
  IN [k \in 1..(numchanout * a.numframes) |->
        ConvertValue(a.data, k, a.samplebits, a.issigned, a.isbigend)]

\* No sample call has been made.
NoCall == [op |-> "none", ret |-> "none", onerror |-> FALSE]

\* The loaded samples notes are created on.
Samples ==
  [imp |-> sample_load(4, <<0, 32767, 0, 0>>, -1, -1, 1, 1, 1),
   lp  |-> sample_load(8, <<100, 200, 300, 400, 500, 600, 700, 800>>,
                       2, 6, 1, 1, 1),
   neg |-> sample_load(4, <<-32768, 20000, 5, 0>>, -1, -1, 1, 1, 1),
   two |-> sample_load(2, <<0, 32767>>, -1, -1, 1, 1, 1)]

\* The sample a note names: one of the loaded samples above, or the sample
\* the load and unload calls work on.
SampleOf(name) == IF name = "smp" THEN smp ELSE Samples[name]

\* Is index i inside the array samp->data points to?  (NULL has no index.)
InData(s, i) == i + 1 \in 1..Len(s.data)

\* What a read outside the array yields when it does not fault.
HeapValue == IF "heap" \in DOMAIN lim THEN lim.heap ELSE 0

\* sampdata[i]
sampdata(s, i) == IF InData(s, i) THEN s.data[i + 1] ELSE HeapValue

\* --------------------------------------------------------------- channels
\* Channel handles: Py_None, a root channel and a child of the root.
Channels == {"None", "root", "kid"}

\* PyObject_GetAttrString(chan, "parent"); "leaf" is a child of "kid".
ChanParent(c) ==
  IF c = "leaf" THEN "kid" ELSE IF c = "kid" THEN "root" ELSE "None"

\* Does PyObject_GetAttrString(chan, "ancestors") succeed?
HasAncestors(c) == c # "None"

\* PyMapping_HasKey(ancs, channel)
ChanAncestors(c) ==
  IF c = "leaf" THEN {"kid", "root"}
  ELSE IF c = "kid" THEN {"root"} ELSE {}

\* Python objects found in a channel's volume tuple: a number n/d, or an
\* object that is no number (a str).
PyInt(k) == [isnum |-> TRUE, n |-> k, d |-> 1]
PyFloat(n, d) == [isnum |-> TRUE, n |-> n, d |-> d]
PyStr == [isnum |-> FALSE, n |-> 0, d |-> 1]

\* PyInt_AsLong: -1, with an exception set, for an object that is no number.
PyInt_AsLong(o) == IF o.isnum THEN CDiv(o.n, o.d) ELSE -1

\* PyFloat_AsDouble: -1.0, with an exception set, for an object that is no
\* number.
PyFloat_AsDouble(o) == IF o.isnum THEN Frac(o.n, o.d) ELSE Frac(-1, 1)

\* What PyObject_GetAttrString can find: nothing, an object that is no
\* tuple, or a tuple of the given items.
NoAttr == [found |-> FALSE, istuple |-> FALSE, items |-> <<>>]
NoTuple == [found |-> TRUE, istuple |-> FALSE, items |-> <<>>]
PyTuple(items) == [found |-> TRUE, istuple |-> TRUE, items |-> items]

\* PyObject_GetAttrString(chan, "volume"): Py_None has no such attribute;
\* the attributes of the channels are those of the run.
ChanVolume(c) ==
  IF c # "None" /\ "vol" \in DOMAIN lim THEN lim.vol[c] ELSE NoAttr

\* Is the build made with BOODLER_INTMATH?
IntMath == IF "intmath" \in DOMAIN lim THEN lim.intmath ELSE FALSE

\* ------------------------------------------------------------ note queue
\* Position of note id in the list q, 0 when it is not linked.
PosOf(q, id) ==
  IF \E i \in 1..Len(q) : q[i] = id
  THEN CHOOSE i \in 1..Len(q) : q[i] = id
  ELSE 0

RECURSIVE ScanFrom_PastEqual(_, _, _, _)
\* A scan that also passes the notes of equal start time.
ScanFrom_PastEqual(q, nt, i, starttime) ==
  IF i <= Len(q) /\ starttime >= nt[q[i]].starttime
  THEN ScanFrom_PastEqual(q, nt, i + 1, starttime)
  ELSE i

RECURSIVE ScanFrom(_, _, _, _)
\* while ((*nptr) && starttime > (*nptr)->starttime) nptr = &((*nptr)->next)
ScanFrom(q, nt, i, starttime) ==
  IF i <= Len(q) /\ starttime > nt[q[i]].starttime
  THEN ScanFrom(q, nt, i + 1, starttime)
  ELSE i

InsertAt(q, i, id) == SubSeq(q, 1, i - 1) \o <<id>> \o SubSeq(q, i, Len(q))

\* A noteq_add that resumes after last_added whatever its start time.
AddStart_Unchecked(q, nt, la, starttime) ==
  IF la # NULL THEN PosOf(q, la) + 1 ELSE 1

\* Where the scan of noteq_add starts: after last_added, or at the head.
AddStart(q, nt, la, starttime) ==
  IF la # NULL /\ starttime >= nt[la].starttime
  THEN PosOf(q, la) + 1
  ELSE 1

\* noteq_add: the list after linking note id (its fields are in nt).
noteq_add(q, nt, la, id) ==
  InsertAt(q, ScanFrom(q, nt, AddStart(q, nt, la, nt[id].starttime),
                       nt[id].starttime), id)

\* noteq_remove: the list after unlinking the note at position i.
noteq_remove(q, i) == SubSeq(q, 1, i - 1) \o SubSeq(q, i + 1, Len(q))

\* ---------------------------------------------------------- note creation
\* The repetition count note_create_reps settles on.
CreateReps(s, reps) == IF ~s.hasloop \/ reps <= 1 THEN 1 ELSE reps

\* The duration note_create_reps returns; ratio = framerate * pitch.
CreateDuration(s, pitch16, reps) ==
  Trunc((s.numframes + s.looplen * (CreateReps(s, reps) - 1))
          * FracOne * s.frden,
        pitch16 * s.frnum)

\* The note_t note_create_reps allocates and fills in.
note_create_reps(samp, pitch16, vol16, shiftx, starttime, reps, channel, rf) ==
  [sample |-> samp, pitch16 |-> pitch16, vol16 |-> vol16,
   shiftx |-> shiftx, shifty |-> 0, scalex |-> 1,
   starttime |-> starttime,
   repetitions |-> CreateReps(SampleOf(samp), reps),
   channel |-> channel, removefunc |-> rf,
   framepos |-> 0, framefrac |-> 0,
   repsleft |-> CreateReps(SampleOf(samp), reps) - 1]

\* What is recorded about a note when it is created.
NewHist(dur) ==
  [removed |-> "no", cb |-> 0, played |-> 0, first |-> <<>>,
   duration |-> dur, err |-> FALSE, mixedin |-> 0,
   oob |-> FALSE, absent |-> FALSE]

\* ------------------------------------------------------------ note_destroy
\* A note_destroy that forgets to call the remover.
DestroyCalls_Never(n, cb) == cb

\* The callback count after note_destroy: the remover is called when it is
\* set and callable.
DestroyCalls(n, cb) == IF n.removefunc THEN cb + 1 ELSE cb

\* A note_destroy whose noteq_remove leaves last_added as it is.
note_destroy_KeepHint(q, nt, h, i, path, raises) ==
  [queue |-> noteq_remove(q, i),
   last_added |-> last_added,
   hist |-> [h EXCEPT ![q[i]].removed = path,
                      ![q[i]].cb = DestroyCalls(nt[q[i]], @),
                      ![q[i]].err = (raises /\ nt[q[i]].removefunc)]]

\* note_destroy on the note at position i, reached from `path'.  The note
\* is unlinked, then the remover is called; when the call raises (raises
\* is TRUE) a message is printed and the error is cleared.
note_destroy(q, nt, h, i, path, raises) ==
  [queue |-> noteq_remove(q, i),
   last_added |-> NULL,
   hist |-> [h EXCEPT ![q[i]].removed = path,
                      ![q[i]].cb = DestroyCalls(nt[q[i]], @),
                      ![q[i]].err = (raises /\ nt[q[i]].removefunc)]]

\* -------------------------------------------------------------- the mixer
\* leftright_volumes: the left and right levels of a point source at
\* (shiftx, shifty), as the fractions lft/den and rgt/den.
leftright_volumes(shiftx, shifty) ==
  LET dist == Max(Abs(shiftx), Abs(shifty))
      far == dist > 1
      d == IF far THEN dist ELSE 1
  IN [lft |-> IF shiftx < 0 THEN d ELSE d - shiftx,
      rgt |-> IF shiftx < 0 THEN d + shiftx ELSE d,
      den |-> IF far THEN d * dist * dist ELSE 1]

\* A step that is not raised to 1 when the pitch rounds to nothing.
LPitch_NoFloor(s, pitch16) ==
  LET raw == Trunc(s.frnum * pitch16, s.frden)
  IN IF raw > MaxLPitch THEN MaxLPitch ELSE raw

\* lpitch = (long)(pitch * 0x10000), kept within [1, 0x10000000]
LPitch(s, pitch16) ==
  LET raw == Trunc(s.frnum * pitch16, s.frden)
  IN IF raw < 1 THEN 1 ELSE IF raw > MaxLPitch THEN MaxLPitch ELSE raw

\* ivollft / ivolrgt = (long)(volume * vollft * 65536.0)
IVol(vol16, num, den) == Trunc(vol16 * num, den)

\* The volume attribute a of one channel folded into w, the locals volume
\* and ranges of noteq_generate: a constant factor is multiplied in, a fade
\* under way is appended to the ranges.  Anything but a 4-tuple is skipped.
ApplyVolume(a, w, ct, et) ==
  IF ~(a.found /\ a.istuple /\ Len(a.items) = 4) THEN w
  ELSE
    LET endtm == PyInt_AsLong(a.items[2])
        endvol == PyFloat_AsDouble(a.items[4])
        starttm == PyInt_AsLong(a.items[1])
        startvol == PyFloat_AsDouble(a.items[3])
    IN IF ct >= endtm THEN [w EXCEPT !.volume = FMul(@, endvol)]
       ELSE IF starttm >= et THEN [w EXCEPT !.volume = FMul(@, startvol)]
       ELSE [w EXCEPT !.ranges =
               Append(@, [start |-> starttm, end |-> endtm,
                          startvol |-> startvol, endvol |-> endvol,
                          istartvol |-> ToFixed(startvol),
                          iendvol |-> ToFixed(endvol)])]

RECURSIVE VolumeWalk(_, _, _, _)
\* while (1) { ... chan = chan.parent } of noteq_generate: the walk from the
\* note's channel up to the root.
VolumeWalk(chan, w, ct, et) ==
  LET w2 == ApplyVolume(ChanVolume(chan), w, ct, et)
  IN IF ChanParent(chan) = "None" THEN w2
     ELSE VolumeWalk(ChanParent(chan), w2, ct, et)

\* APPLY_RANGE of the floating-point build: the factor of range r.
ApplyRangeF(r, frametime) ==
  IF frametime >= r.end THEN r.endvol
  ELSE IF frametime <= r.start THEN r.startvol
  ELSE FAdd(FMul(Frac(frametime - r.start, r.end - r.start),
                 FSub(r.endvol, r.startvol)),
            r.startvol)

\* intermed of APPLY_RANGE in the BOODLER_INTMATH build: the gain, in
\* 65536ths, of range r at a frametime inside it.
Intermed(r, frametime) ==
  LET step == CDiv(frametime - r.start, Or1(Shr8(r.end - r.start)))
  IN Shr8(step * (r.iendvol - r.istartvol)) + r.istartvol

\* APPLY_RANGE of the BOODLER_INTMATH build: the new value of IVOL.
ApplyRangeI(r, frametime, ivol) ==
  IF frametime >= r.end THEN Shr16(ivol * r.iendvol)
  ELSE IF frametime <= r.start THEN Shr16(ivol * r.istartvol)
  ELSE Shr16(ivol * Intermed(r, frametime))

RECURSIVE VarVolsF(_, _, _, _)
\* for (ranx=0; ranx<numranges; ranx++) APPLY_RANGE(...), floating point
VarVolsF(ranges, ranx, frametime, varvols) ==
  IF ranx > Len(ranges) THEN varvols
  ELSE VarVolsF(ranges, ranx + 1, frametime,
                FMul(varvols, ApplyRangeF(ranges[ranx], frametime)))

RECURSIVE VarVolsI(_, _, _, _)
\* for (ranx=0; ranx<numranges; ranx++) APPLY_RANGE(...), BOODLER_INTMATH
VarVolsI(ranges, ranx, frametime, ivarvols) ==
  IF ranx > Len(ranges) THEN ivarvols
  ELSE VarVolsI(ranges, ranx + 1, frametime,
                ApplyRangeI(ranges[ranx], frametime, ivarvols))

\* ivollft / ivolrgt of the frame at frametime, for the pan level num/den.
\* Without ranges it is (long)(volume * vollft * 65536.0) for the whole
\* buffer; with ranges it is worked out again for each frame.
FrameVol(w, num, den, frametime) ==
  LET base == CDiv(w.volume.n * num * FracOne, w.volume.d * den)
  IN IF Len(w.ranges) = 0 THEN base
     ELSE IF IntMath
     THEN Shr14(VarVolsI(w.ranges, 1, frametime, 16384) * base)
     ELSE LET v == FMul(w.volume, VarVolsF(w.ranges, 1, frametime, Frac(1, 1)))
          IN CDiv(v.n * num * FracOne, v.d * den)

RECURSIVE LoopWrap_Uncounted(_, _, _)
\* A wrap that goes round the loop whatever repsleft is.
LoopWrap_Uncounted(s, framepos, repsleft) ==
  IF s.looplen > 0 /\ framepos >= s.loopend
  THEN LoopWrap_Uncounted(s, framepos - s.looplen, repsleft - 1)
  ELSE [framepos |-> framepos, repsleft |-> repsleft]

RECURSIVE LoopWrap(_, _, _)
\* while (note->repsleft > 0 && framepos >= samp->loopend) { ... }
LoopWrap(s, framepos, repsleft) ==
  IF repsleft > 0 /\ framepos >= s.loopend
  THEN LoopWrap(s, framepos - s.looplen, repsleft - 1)
  ELSE [framepos |-> framepos, repsleft |-> repsleft]

\* The index of the frame interpolated towards.
NextFrame(s, framepos, repsleft) ==
  IF framepos + 1 = s.loopend /\ repsleft > 0
  THEN framepos + 1 - s.looplen
  ELSE framepos + 1

\* result = val0 * (0x10000-framefrac) + val1 * framefrac, for channel ch
Interp(s, cur, nxt, ch, framefrac) ==
  sampdata(s, cur * s.numchannels + ch) * (FracOne - framefrac)
    + sampdata(s, nxt * s.numchannels + ch) * framefrac

\* What one frame of note n adds to the left and right output, mono sample.
FrameMono(n, s, framepos, framefrac, repsleft, w, frametime) ==
  LET lr == leftright_volumes(n.shiftx, n.shifty)
      result == Interp(s, framepos, NextFrame(s, framepos, repsleft), 0,
                       framefrac)
  IN <<Shr16(Shr16(result) * FrameVol(w, lr.lft, lr.den, frametime)),
       Shr16(Shr16(result) * FrameVol(w, lr.rgt, lr.den, frametime))>>

\* The same for a stereo sample: both input channels go to both outputs.
FrameStereo(n, s, framepos, framefrac, repsleft, w, frametime) ==
  LET lr0 == leftright_volumes(n.shiftx - n.scalex, n.shifty)
      lr1 == leftright_volumes(n.shiftx + n.scalex, n.shifty)
      nxt == NextFrame(s, framepos, repsleft)
      resch0 == Interp(s, framepos, nxt, 0, framefrac)
      resch1 == Interp(s, framepos, nxt, 1, framefrac)
  IN <<Shr16(Shr16(resch0) * FrameVol(w, lr0.lft, lr0.den, frametime))
         + Shr16(Shr16(resch1) * FrameVol(w, lr1.lft, lr1.den, frametime)),
       Shr16(Shr16(resch0) * FrameVol(w, lr0.rgt, lr0.den, frametime))
         + Shr16(Shr16(resch1) * FrameVol(w, lr1.rgt, lr1.den, frametime))>>

\* Is the note finished after the cursor has advanced?
Finished(s, framepos, repsleft) ==
  framepos + 1 >= s.numframes /\ repsleft = 0

RECURSIVE MixFrames(_, _, _, _)
\* for (lx=notestart; lx<framesperbuf; lx++) { ... } of noteq_generate.
\* m carries framepos, framefrac, repsleft, the buffer, willdelete, the
\* volume and ranges of the channel walk (w), current_time (ct), the log of
\* <<lx, framepos>> of the frames produced, and whether a frame was read
\* from outside the sample data (oob).
MixFrames(n, s, m, lx) ==
  IF lx >= FramesPerBuf THEN m
  ELSE
    LET add == IF s.numchannels = 1
               THEN FrameMono(n, s, m.framepos, m.framefrac, m.repsleft,
                              m.w, m.ct + lx)
               ELSE FrameStereo(n, s, m.framepos, m.framefrac, m.repsleft,
                                m.w, m.ct + lx)
        nxt == NextFrame(s, m.framepos, m.repsleft)
        outside == \E i \in {m.framepos, nxt} :
                     \E ch \in 0..(s.numchannels - 1) :
                       ~InData(s, i * s.numchannels + ch)
        buf == [m.buf EXCEPT ![2 * lx + 1] = @ + add[1],
                             ![2 * lx + 2] = @ + add[2]]
        frac == m.framefrac + LPitch(s, n.pitch16)
        w == LoopWrap(s, m.framepos + (frac \div FracOne), m.repsleft)
        m2 == [framepos |-> w.framepos, framefrac |-> frac % FracOne,
               repsleft |-> w.repsleft, buf |-> buf,
               log |-> Append(m.log, <<lx, m.framepos>>),
               willdelete |-> Finished(s, w.framepos, w.repsleft),
               w |-> m.w, ct |-> m.ct, oob |-> (m.oob \/ outside)]
    IN IF m2.willdelete THEN m2 ELSE MixFrames(n, s, m2, lx + 1)

\* noteq_init: maxranges = 2, and ranges is malloc'ed with that many items.
InitRanges == 2

RECURSIVE GrownMax(_, _)
\* maxranges after a channel walk that gathers numranges ranges: it is
\* doubled each time the next range finds numranges >= maxranges.
GrownMax(max, numranges) ==
  IF numranges <= max THEN max ELSE GrownMax(2 * max, numranges)

\* The ranges vector after a channel walk in which every realloc worked:
\* realloc gives storage for the new maxranges; a range written at an
\* index that is not in the storage is a wild write.
RangesAfter(r, numranges) ==
  LET max == GrownMax(r.max, numranges)
      cap == IF max > r.max THEN max ELSE r.cap
  IN [cap |-> cap, max |-> max,
      wild |-> r.wild \/ (numranges > cap)]

\* The ranges vector after a channel walk in which the first realloc
\* failed: maxranges is doubled already, ranges is NULL.
RangesFailed(r) == [cap |-> 0, max |-> 2 * r.max, wild |-> r.wild]

\* The locals of noteq_generate when the frame loop of note n starts: its
\* cursor, and the volume and ranges the channel walk has gathered.
MixLocals(n, buf, ct, et) ==
  [framepos |-> n.framepos, framefrac |-> n.framefrac,
   repsleft |-> n.repsleft, buf |-> buf, log |-> <<>>,
   willdelete |-> FALSE,
   w |-> VolumeWalk(n.channel,
                    [volume |-> Frac(n.vol16, FracOne), ranges |-> <<>>],
                    ct, et),
   ct |-> ct, oob |-> FALSE]

\* A mixer that starts every due note at the head of the buffer.
NoteStart_Zero(starttime, ct) == 0

\* The frame of the buffer at which a note starts to be mixed.
NoteStart(starttime, ct) ==
  IF starttime >= ct THEN starttime - ct ELSE 0

\* ---------------------------------------------------- inputs of the run
\* Start times asked for, relative to current_time: late, inside the
\* buffer being generated, and in the next buffer.
StartOffsets == {-1, 1, FramesPerBuf}

QueueOffsets == {-1, FramesPerBuf}

\* The notes the embedding asks for: sample, pitch, volume, pan, reps,
\* channel and remover.
NoteIn(samp, pitch16, vol16, shiftx, reps, channel, removefunc) ==
  [samp |-> samp, pitch16 |-> pitch16, vol16 |-> vol16, shiftx |-> shiftx,
   reps |-> reps, channel |-> channel, removefunc |-> removefunc]

QueueInputs ==
  {NoteIn("imp", FracOne, FracOne, 0, 1, "None", TRUE),
   NoteIn("lp", FracOne, 32768, -1, 2, "kid", FALSE),
   NoteIn("imp", FracOne, FracOne, 1, 1, "root", TRUE)}

MixInputs ==
  {NoteIn("imp", FracOne, FracOne, 0, 1, "None", TRUE),
   NoteIn("imp", FracOne, FracOne, -1, 1, "kid", FALSE),
   NoteIn("lp", FracOne, 32768, 1, 2, "root", TRUE),
   NoteIn("lp", 2 * FracOne, FracOne, 0, 1, "kid", TRUE)}

LoopInputs ==
  {NoteIn("lp", p, FracOne, 0, r, "root", TRUE) :
     p \in {FracOne, 2 * FracOne}, r \in 1..MaxReps}
  \cup {NoteIn("imp", FracOne, FracOne, 0, 2, "kid", FALSE)}

\* Notes loud enough to leave the 16-bit range when they overlap.
SinkInputs ==
  {NoteIn("imp", FracOne, FracOne, 0, 1, "None", FALSE),
   NoteIn("neg", FracOne, FracOne, 0, 1, "None", FALSE)}

SinkOffsets == {-1, 0}

\* Notes with a remover, one short and one that outlasts a buffer.
ErrInputs ==
  {NoteIn("imp", FracOne, FracOne, 0, 1, "root", TRUE),
   NoteIn("lp", FracOne, FracOne, 0, 1, "kid", TRUE)}

AdjustOffsets == {-1, 3}

\* --------------------------------------------------------- initial state
\* A memset over one channel's worth of the interleaved buffer.
ZeroBuffer_Half ==
  [i \in 1..(2 * FramesPerBuf) |-> IF i <= FramesPerBuf THEN 0 ELSE buffer[i]]

\* memset(buffer, 0, sizeof(long) * 2 * framesperbuf)
ZeroBuffer == [i \in 1..(2 * FramesPerBuf) |-> 0]

\* The queued notes that start before end_time, in queue order.
DueNotes(q, nt, et) == SelectSeq(q, LAMBDA id : nt[id].starttime < et)

NoOp == [op |-> "none", k |-> 0, chan |-> "None", res |-> FALSE,
         dev |-> "none"]

NoTick == [count |-> 0, arg |-> 0, zeroed |-> FALSE, mixed |-> 0,
           reaped |-> 0, errs |-> 0,
              seq |-> <<>>, due |-> <<>>]

\* The AudioQueue after AudioQueueNewOutput: no buffer is enqueued.
NoQueue == [queued |-> <<>>, disposed |-> FALSE]

\* After noteq_init: the queue is empty and the clock is at 0.
InitQueue ==
  /\ queue = <<>>
  /\ note = <<>>
  /\ last_added = NULL
  /\ current_time = 0
  /\ hist = <<>>

\* After noteq_init and audev_init_device, outside the queue; the buffer is
\* malloc'ed and holds anything.
InitRun ==
  /\ buffer = [i \in 1..(2 * FramesPerBuf) |-> 77]
  /\ end_time = 0
  /\ nptr = 0
  /\ pc = "loop"
  /\ calls = 0
  /\ ops = 0
  /\ written = 0
  /\ loopres = "running"
  /\ tick = NoTick
  /\ lastop = NoOp
  /\ rawbuffer = [i \in 1..(4 * FramesPerBuf) |-> 0]
  /\ wframes = 0
  /\ accepted = <<>>
  /\ underruns = 0
  /\ failed = FALSE
  /\ curtime = 0
  /\ slots = [bx \in 0..(bufcount - 1) |-> [full |-> FALSE, buf |-> 0]]
  /\ mutex = [bx \in 0..(bufcount - 1) |-> "free"]
  /\ filling = 0
  /\ emptying = 0
  /\ started = FALSE
  /\ bailing = FALSE
  /\ devrun = FALSE
  /\ cpc = "idle"
  /\ cslot = 0
  /\ kbx = 0
  /\ out = <<>>
  /\ released = FALSE
  /\ rng = [cap |-> InitRanges, max |-> InitRanges, wild |-> FALSE]
  /\ audevice = "dev"
  /\ running = TRUE
  /\ aqueue = NoQueue

\* After noteq_init and audev_init_device.
InitState ==
  /\ InitQueue
  /\ InitRun

\* No sample call is made in this run: the sample stays as created.
NoSample ==
  /\ smp = sample_create(FALSE, 0)
  /\ slast = NoCall

Init ==
  /\ InitState
  /\ NoSample
  /\ lim = [ops |-> MaxOps, bufs |-> MaxBufs, inputs |-> QueueInputs,
            offsets |-> QueueOffsets, bigendian |-> TRUE,
            period |-> FramesPerBuf, faults |-> FALSE, backend |-> "alsa",
            raises |-> {FALSE}]

InitMix ==
  /\ InitState
  /\ NoSample
  /\ lim = [ops |-> MixOps, bufs |-> MixBufs, inputs |-> MixInputs,
            offsets |-> StartOffsets, bigendian |-> FALSE,
            period |-> FramesPerBuf, faults |-> FALSE, backend |-> "alsa",
            raises |-> {FALSE}]

InitLoop ==
  /\ InitState
  /\ NoSample
  /\ lim = [ops |-> LoopOps, bufs |-> LoopBufs, inputs |-> LoopInputs,
            offsets |-> StartOffsets, bigendian |-> FALSE,
            period |-> FramesPerBuf, faults |-> FALSE, backend |-> "alsa",
            raises |-> {FALSE}]

\* sound_periodsize: the sound buffer is a whole number of periods.
sound_periodsize == IF FramesPerBuf % 2 = 0 THEN 2 ELSE 1

\* A device that reports short writes, underruns and errors, in either
\* byte order.
InitSink ==
  /\ InitState
  /\ NoSample
  /\ \E be \in BOOLEAN :
       lim = [ops |-> SinkOps, bufs |-> SinkBufs, inputs |-> SinkInputs,
              offsets |-> SinkOffsets, bigendian |-> be,
              period |-> sound_periodsize, faults |-> TRUE,
              backend |-> "alsa",
            raises |-> {FALSE}]

\* Removers that may raise when they are called.
InitErr ==
  /\ InitState
  /\ NoSample
  /\ lim = [ops |-> ErrOps, bufs |-> ErrBufs, inputs |-> ErrInputs,
            offsets |-> StartOffsets, bigendian |-> FALSE,
            period |-> FramesPerBuf, faults |-> FALSE, backend |-> "alsa",
            raises |-> BOOLEAN]

\* The OSS sink on a device whose write can come back short or fail.
InitOss ==
  /\ InitState
  /\ NoSample
  /\ \E be \in BOOLEAN :
       lim = [ops |-> SinkOps, bufs |-> SinkBufs, inputs |-> SinkInputs,
              offsets |-> SinkOffsets, bigendian |-> be,
              period |-> FramesPerBuf, faults |-> TRUE, backend |-> "oss",
            raises |-> {FALSE}]

\* The file sink, opened with a time option of maxtime frames (nothing, or
\* less than nothing, included).  No generate call is refused: the sink
\* stops by itself within maxtime + 1 buffers.
InitFile ==
  /\ InitState
  /\ NoSample
  /\ \E mt \in (-1)..MaxTime :
       lim = [ops |-> SinkOps, bufs |-> MaxTime + 1, inputs |-> SinkInputs,
              offsets |-> SinkOffsets, bigendian |-> FALSE,
              period |-> FramesPerBuf, faults |-> FALSE,
              backend |-> "file", raises |-> {FALSE}, maxtime |-> mt]

\* -------------------------------------------------------------- actions
\* A noteq_generate that zeroes the buffer before it calls genfunc.
GenerateEnter_ZeroFirst ==
  /\ pc = "loop"
  /\ calls < lim.bufs
  /\ calls' = calls + 1
  /\ buffer' = [i \in 1..(2 * FramesPerBuf) |-> 0]
  /\ tick' = [count |-> 1, arg |-> current_time, zeroed |-> TRUE,
              mixed |-> 0, reaped |-> 0, errs |-> 0,
              seq |-> <<>>, due |-> <<>>]
  /\ pc' = "tick"
  /\ lastop' = [NoOp EXCEPT !.op = "enter"]
  /\ UNCHANGED rng
  /\ UNCHANGED sessvars
  /\ UNCHANGED lim
  /\ UNCHANGED smpvars
  /\ UNCHANGED sinkvars
  /\ UNCHANGED cavars
  /\ UNCHANGED <<queue, note, last_added, current_time, end_time,
                 nptr, ops, written, loopres, hist>>

\* audev_loop calls noteq_generate, which calls genfunc(current_time, rock).
GenerateEnter ==
  /\ pc = "loop"
  /\ calls < lim.bufs
  /\ calls' = calls + 1
  /\ tick' = [count |-> 1, arg |-> current_time, zeroed |-> FALSE,
              mixed |-> 0, reaped |-> 0, errs |-> 0,
              seq |-> <<>>, due |-> <<>>]
  /\ pc' = "tick"
  /\ lastop' = [NoOp EXCEPT !.op = "enter"]
  /\ UNCHANGED rng
  /\ UNCHANGED sessvars
  /\ UNCHANGED lim
  /\ UNCHANGED smpvars
  /\ UNCHANGED sinkvars
  /\ UNCHANGED cavars
  /\ UNCHANGED <<queue, note, last_added, current_time, buffer, end_time,
                 nptr, ops, written, loopres, hist>>

\* cboodle_create_note_reps, called by the agents during the tick.
CreateNote(inp, off) ==
  /\ pc = "tick"
  /\ ops < lim.ops
  /\ ops' = ops + 1
  /\ LET id == Len(note) + 1
         n == note_create_reps(inp.samp, inp.pitch16, inp.vol16, inp.shiftx,
                               current_time + off, inp.reps, inp.channel,
                               inp.removefunc)
         nt == Append(note, n)
     IN /\ note' = nt
        /\ queue' = noteq_add(queue, nt, last_added, id)
        /\ last_added' = id
        /\ hist' = Append(hist, NewHist(CreateDuration(SampleOf(inp.samp),
                                                      inp.pitch16, inp.reps)))
  /\ lastop' = [NoOp EXCEPT !.op = "create"]
  /\ UNCHANGED rng
  /\ UNCHANGED sessvars
  /\ UNCHANGED lim
  /\ UNCHANGED smpvars
  /\ UNCHANGED sinkvars
  /\ UNCHANGED cavars
  /\ UNCHANGED <<current_time, buffer, end_time, nptr, pc, calls,
                 written, loopres, tick>>

\* A timebase shift that moves current_time and leaves the notes behind.
noteq_adjust_timebase_ClockOnly(offset) ==
  /\ pc = "tick"
  /\ ops < lim.ops
  /\ ops' = ops + 1
  /\ current_time' = current_time - offset
  /\ lastop' = [NoOp EXCEPT !.op = "adjust", !.k = offset]
  /\ UNCHANGED rng
  /\ UNCHANGED sessvars
  /\ UNCHANGED lim
  /\ UNCHANGED smpvars
  /\ UNCHANGED sinkvars
  /\ UNCHANGED cavars
  /\ UNCHANGED <<queue, note, last_added, buffer, end_time, nptr, pc, calls,
                 written, loopres, hist, tick>>

\* noteq_adjust_timebase(offset), called by the agents during the tick.
noteq_adjust_timebase(offset) ==
  /\ pc = "tick"
  /\ ops < lim.ops
  /\ ops' = ops + 1
  /\ current_time' = current_time - offset
  /\ note' = [id \in DOMAIN note |->
                IF PosOf(queue, id) # 0
                THEN [note[id] EXCEPT !.starttime = @ - offset]
                ELSE note[id]]
  /\ lastop' = [NoOp EXCEPT !.op = "adjust", !.k = offset]
  /\ UNCHANGED rng
  /\ UNCHANGED sessvars
  /\ UNCHANGED lim
  /\ UNCHANGED smpvars
  /\ UNCHANGED sinkvars
  /\ UNCHANGED cavars
  /\ UNCHANGED <<queue, last_added, buffer, end_time, nptr, pc, calls,
                 written, loopres, hist, tick>>

\* A test that looks at the note's own channel only.
WillDelete_OwnChannel(n, channel) == n.channel = channel

\* Does note_destroy_by_channel(channel) delete note n?
WillDelete(n, channel) ==
  \/ n.channel = channel
  \/ /\ HasAncestors(n.channel)
     /\ channel \in ChanAncestors(n.channel)

RECURSIVE DestroyWalk_Unlink(_, _, _, _, _)
\* A walk that unlinks the notes with noteq_remove alone.
DestroyWalk_Unlink(w, nt, i, channel, raises) ==
  IF i > Len(w.queue) THEN w
  ELSE IF WillDelete(nt[w.queue[i]], channel)
       THEN DestroyWalk_Unlink(
              [queue |-> noteq_remove(w.queue, i), last_added |-> NULL,
               hist |-> [w.hist EXCEPT ![w.queue[i]].removed = "channel"]],
              nt, i, channel, raises)
       ELSE DestroyWalk_Unlink(w, nt, i + 1, channel, raises)

RECURSIVE DestroyWalk(_, _, _, _, _)
\* The walk of note_destroy_by_channel from position i of the list; w
\* carries the list, last_added and the record of the notes.
DestroyWalk(w, nt, i, channel, raises) ==
  IF i > Len(w.queue) THEN w
  ELSE IF WillDelete(nt[w.queue[i]], channel)
       THEN DestroyWalk(note_destroy(w.queue, nt, w.hist, i, "channel",
                                     raises),
                        nt, i, channel, raises)
       ELSE DestroyWalk(w, nt, i + 1, channel, raises)

\* cboodle_stop_notes(channel), called by the agents during the tick.
note_destroy_by_channel(channel, raises) ==
  /\ pc = "tick"
  /\ ops < lim.ops
  /\ ops' = ops + 1
  /\ LET w == DestroyWalk([queue |-> queue, last_added |-> last_added,
                           hist |-> hist], note, 1, channel, raises)
     IN /\ queue' = w.queue
        /\ last_added' = w.last_added
        /\ hist' = w.hist
  /\ lastop' = [NoOp EXCEPT !.op = "destroy", !.chan = channel,
                            !.res = raises]
  /\ UNCHANGED rng
  /\ UNCHANGED sessvars
  /\ UNCHANGED lim
  /\ UNCHANGED smpvars
  /\ UNCHANGED sinkvars
  /\ UNCHANGED cavars
  /\ UNCHANGED <<note, current_time, buffer, end_time, nptr, pc, calls,
                 written, loopres, tick>>

\* A noteq_generate that does not look at the result of genfunc.
TickReturn_IgnoreStop(res) ==
  /\ pc = "tick"
  /\ pc' = "mix"
  /\ end_time' = current_time + FramesPerBuf
  /\ buffer' = ZeroBuffer
  /\ nptr' = 1
  /\ tick' = [tick EXCEPT !.zeroed = TRUE,
                              !.due = DueNotes(queue, note,
                                         current_time + FramesPerBuf)]
  /\ lastop' = [NoOp EXCEPT !.op = "tickreturn", !.res = res]
  /\ UNCHANGED rng
  /\ UNCHANGED sessvars
  /\ UNCHANGED lim
  /\ UNCHANGED smpvars
  /\ UNCHANGED sinkvars
  /\ UNCHANGED cavars
  /\ UNCHANGED <<queue, note, last_added, current_time, calls, ops,
                 written, loopres, hist>>

\* genfunc returns.  On a nonzero result noteq_generate returns TRUE, and
\* audev_loop returns TRUE to cboodle_loop; otherwise end_time is set and
\* the buffer is zeroed.
TickReturn(res) ==
  /\ pc = "tick"
  /\ IF res
     THEN /\ pc' = "done"
          /\ loopres' = "TRUE"
          /\ UNCHANGED <<buffer, end_time, nptr, tick>>
     ELSE /\ pc' = "mix"
          /\ end_time' = current_time + FramesPerBuf
          /\ buffer' = ZeroBuffer
          /\ nptr' = 1
          /\ tick' = [tick EXCEPT !.zeroed = TRUE,
                              !.due = DueNotes(queue, note,
                                         current_time + FramesPerBuf)]
          /\ UNCHANGED loopres
  /\ lastop' = [NoOp EXCEPT !.op = "tickreturn", !.res = res]
  /\ UNCHANGED rng
  /\ UNCHANGED sessvars
  /\ UNCHANGED lim
  /\ UNCHANGED smpvars
  /\ UNCHANGED sinkvars
  /\ UNCHANGED cavars
  /\ UNCHANGED <<queue, note, last_added, current_time, calls, ops,
                 written, hist>>

\* A walk that makes noteq_generate return TRUE when a remover raises.
MixNote_AbortOnError(raises) ==
  /\ pc = "mix"
  /\ nptr <= Len(queue)
  /\ note[queue[nptr]].starttime < end_time
  /\ LET id == queue[nptr]
         n == note[id]
         s == SampleOf(n.sample)
     IN \E m \in {MixFrames(n, s,
                             MixLocals(n, buffer, current_time, end_time),
                             NoteStart(n.starttime, current_time))} :
       LET
         failing == raises /\ m.willdelete /\ n.removefunc
         h == [hist EXCEPT
                 ![id].played = @ + Len(m.log),
                 ![id].mixedin = calls,
                 ![id].oob = @ \/ m.oob,
                 ![id].absent = @ \/ (Len(m.log) > 0 /\ ~s.loaded),
                 ![id].first = IF @ = <<>>
                               THEN <<[ct |-> current_time,
                                       st |-> n.starttime, log |-> m.log]>>
                               ELSE @]
         d == note_destroy(queue, note, h, nptr, "generate", raises)
     IN /\ buffer' = m.buf
        /\ rng' = RangesAfter(rng, Len(m.w.ranges))
        /\ note' = [note EXCEPT ![id].framepos = m.framepos,
                                ![id].framefrac = m.framefrac,
                                ![id].repsleft = m.repsleft]
        /\ IF m.willdelete
           THEN /\ queue' = d.queue
                /\ last_added' = d.last_added
                /\ hist' = d.hist
                /\ nptr' = nptr
           ELSE /\ hist' = h
                /\ nptr' = nptr + 1
                /\ UNCHANGED <<queue, last_added>>
        /\ tick' = [tick EXCEPT !.mixed = @ + 1,
                                !.seq = Append(@, id),
                                !.reaped = IF m.willdelete THEN @ + 1 ELSE @,
                                !.errs = IF failing THEN @ + 1 ELSE @]
        /\ lastop' = [NoOp EXCEPT !.op = "mix", !.res = failing]
        /\ pc' = IF failing THEN "done" ELSE pc
        /\ loopres' = IF failing THEN "TRUE" ELSE loopres
  /\ UNCHANGED sessvars
  /\ UNCHANGED lim
  /\ UNCHANGED smpvars
  /\ UNCHANGED sinkvars
  /\ UNCHANGED cavars
  /\ UNCHANGED <<current_time, end_time, calls, ops, written>>

\* A walk that steps over the note that follows a reaped one.
MixNote_SkipAfterReap(raises) ==
  /\ pc = "mix"
  /\ nptr <= Len(queue)
  /\ note[queue[nptr]].starttime < end_time
  /\ LET id == queue[nptr]
         n == note[id]
         s == SampleOf(n.sample)
     IN \E m \in {MixFrames(n, s,
                             MixLocals(n, buffer, current_time, end_time),
                             NoteStart(n.starttime, current_time))} :
       LET
         failing == raises /\ m.willdelete /\ n.removefunc
         h == [hist EXCEPT
                 ![id].played = @ + Len(m.log),
                 ![id].mixedin = calls,
                 ![id].oob = @ \/ m.oob,
                 ![id].absent = @ \/ (Len(m.log) > 0 /\ ~s.loaded),
                 ![id].first = IF @ = <<>>
                               THEN <<[ct |-> current_time,
                                       st |-> n.starttime, log |-> m.log]>>
                               ELSE @]
         d == note_destroy(queue, note, h, nptr, "generate", raises)
     IN /\ buffer' = m.buf
        /\ rng' = RangesAfter(rng, Len(m.w.ranges))
        /\ note' = [note EXCEPT ![id].framepos = m.framepos,
                                ![id].framefrac = m.framefrac,
                                ![id].repsleft = m.repsleft]
        /\ IF m.willdelete
           THEN /\ queue' = d.queue
                /\ last_added' = d.last_added
                /\ hist' = d.hist
                /\ nptr' = nptr + 1
           ELSE /\ hist' = h
                /\ nptr' = nptr + 1
                /\ UNCHANGED <<queue, last_added>>
        /\ tick' = [tick EXCEPT !.mixed = @ + 1,
                                !.seq = Append(@, id),
                                !.reaped = IF m.willdelete THEN @ + 1 ELSE @,
                                !.errs = IF failing THEN @ + 1 ELSE @]
        /\ lastop' = [NoOp EXCEPT !.op = "mix", !.res = failing]
  /\ UNCHANGED sessvars
  /\ UNCHANGED lim
  /\ UNCHANGED smpvars
  /\ UNCHANGED sinkvars
  /\ UNCHANGED cavars
  /\ UNCHANGED <<current_time, end_time, pc, calls, ops, written,
                 loopres>>

\* One turn of the while (1) of noteq_generate on a note that is due.
MixNote(raises) ==
  /\ pc = "mix"
  /\ nptr <= Len(queue)
  /\ note[queue[nptr]].starttime < end_time
  /\ LET id == queue[nptr]
         n == note[id]
         s == SampleOf(n.sample)
     IN \E m \in {MixFrames(n, s,
                             MixLocals(n, buffer, current_time, end_time),
                             NoteStart(n.starttime, current_time))} :
       LET
         failing == raises /\ m.willdelete /\ n.removefunc
         h == [hist EXCEPT
                 ![id].played = @ + Len(m.log),
                 ![id].mixedin = calls,
                 ![id].oob = @ \/ m.oob,
                 ![id].absent = @ \/ (Len(m.log) > 0 /\ ~s.loaded),
                 ![id].first = IF @ = <<>>
                               THEN <<[ct |-> current_time,
                                       st |-> n.starttime, log |-> m.log]>>
                               ELSE @]
         d == note_destroy(queue, note, h, nptr, "generate", raises)
     IN /\ buffer' = m.buf
        /\ rng' = RangesAfter(rng, Len(m.w.ranges))
        /\ note' = [note EXCEPT ![id].framepos = m.framepos,
                                ![id].framefrac = m.framefrac,
                                ![id].repsleft = m.repsleft]
        /\ IF m.willdelete
           THEN /\ queue' = d.queue
                /\ last_added' = d.last_added
                /\ hist' = d.hist
                /\ nptr' = nptr
           ELSE /\ hist' = h
                /\ nptr' = nptr + 1
                /\ UNCHANGED <<queue, last_added>>
        /\ tick' = [tick EXCEPT !.mixed = @ + 1,
                                !.seq = Append(@, id),
                                !.reaped = IF m.willdelete THEN @ + 1 ELSE @,
                                !.errs = IF failing THEN @ + 1 ELSE @]
        /\ lastop' = [NoOp EXCEPT !.op = "mix", !.res = failing]
  /\ UNCHANGED sessvars
  /\ UNCHANGED lim
  /\ UNCHANGED smpvars
  /\ UNCHANGED sinkvars
  /\ UNCHANGED cavars
  /\ UNCHANGED <<current_time, end_time, pc, calls, ops, written,
                 loopres>>

\* A generate that returns without moving the clock.
GenerateFinish_KeepClock ==
  /\ pc = "mix"
  /\ IF nptr <= Len(queue)
     THEN note[queue[nptr]].starttime >= end_time
     ELSE TRUE
  /\ pc' = "write"
  /\ lastop' = [NoOp EXCEPT !.op = "finish"]
  /\ UNCHANGED rng
  /\ UNCHANGED sessvars
  /\ UNCHANGED lim
  /\ UNCHANGED smpvars
  /\ UNCHANGED sinkvars
  /\ UNCHANGED cavars
  /\ UNCHANGED <<queue, note, last_added, buffer, end_time, nptr, calls,
                 ops, written, loopres, hist, tick, current_time>>

\* The walk ends: no note left, or the next one starts after this buffer.
GenerateFinish ==
  /\ pc = "mix"
  /\ IF nptr <= Len(queue)
     THEN note[queue[nptr]].starttime >= end_time
     ELSE TRUE
  /\ current_time' = end_time
  /\ pc' = "write"
  /\ lastop' = [NoOp EXCEPT !.op = "finish"]
  /\ UNCHANGED rng
  /\ UNCHANGED sessvars
  /\ UNCHANGED lim
  /\ UNCHANGED smpvars
  /\ UNCHANGED sinkvars
  /\ UNCHANGED cavars
  /\ UNCHANGED <<queue, note, last_added, buffer, end_time, nptr, calls,
                 ops, written, loopres, hist, tick>>

\* A clamp to the whole range of a signed 16-bit integer.
ClampSample_FullRange(samp) ==
  IF samp > 32767 THEN 32767
  ELSE IF samp < -32768 THEN -32768 ELSE samp

\* The sink's conversion of one long of the mix buffer: clamp, then two
\* bytes in the byte order of sound_format.
ClampSample(samp) ==
  IF samp > 32767 THEN 32767
  ELSE IF samp < -32767 THEN -32767 ELSE samp

\* (samp >> 8) & 0xFF and samp & 0xFF
HighByte(samp) == (samp \div 256) % 256
LowByte(samp) == samp % 256

\* The bytes of rawbuffer: sample ix of the buffer goes to bytes 2ix, 2ix+1.
ConvertBuffer(buf, bigendian) ==
  [b \in 1..(4 * FramesPerBuf) |->
     LET samp == ClampSample(buf[(b + 1) \div 2])
         first == b % 2 = 1
     IN IF first = bigendian THEN HighByte(samp) ELSE LowByte(samp)]

\* audev_loop, after mixfunc has returned FALSE: the buffer is converted
\* into rawbuffer and the write loop starts with written = 0.
SinkConvert ==
  /\ pc = "write"
  /\ rawbuffer' = ConvertBuffer(buffer, lim.bigendian)
  /\ wframes' = 0
  /\ accepted' = <<>>
  /\ pc' = "dev"
  /\ lastop' = [NoOp EXCEPT !.op = "convert"]
  /\ UNCHANGED rng
  /\ UNCHANGED sessvars
  /\ UNCHANGED lim
  /\ UNCHANGED smpvars
  /\ UNCHANGED curtime
  /\ UNCHANGED cavars
  /\ UNCHANGED <<queue, note, last_added, current_time, buffer, end_time,
                 nptr, calls, ops, written, loopres, hist, tick, underruns,
                 failed>>

\* towrite of the next snd_pcm_writei; the OSS sink hands the whole
\* rawbuffer to one write.
ToWrite == IF FramesPerBuf - wframes > lim.period
           THEN lim.period
           ELSE FramesPerBuf - wframes

\* What one snd_pcm_writei of towrite frames can come back with: a count
\* of frames taken, 0, -EPIPE (after which snd_pcm_prepare succeeds or
\* fails), or another error.  A write(2) on the OSS device comes back with
\* a count or with an error.
DevResponses(towrite) ==
  IF lim.faults
  THEN [kind : {"frames"}, n : 1..towrite]
         \cup [kind : IF lim.backend \in {"oss", "file"}
                      THEN {"error"}
                      ELSE {"zero", "epipe", "prepfail", "error"}, n : {0}]
  ELSE {[kind |-> "frames", n |-> towrite]}

\* A write loop that moves on to the next period after an underrun.
AlsaWrite_SkipOnUnderrun(r) ==
  /\ pc = "dev"
  /\ r.kind = "epipe" => underruns < MaxUnderruns
  /\ IF r.kind = "frames"
     THEN /\ wframes' = wframes + r.n
          /\ accepted' = accepted \o [i \in 1..r.n |-> wframes + i - 1]
          /\ IF wframes + r.n < FramesPerBuf
             THEN UNCHANGED <<pc, written>>
             ELSE /\ pc' = "loop"
                  /\ written' = written + 1
          /\ UNCHANGED <<loopres, underruns, failed>>
     ELSE IF r.kind = "epipe"
     THEN /\ underruns' = underruns + 1
          /\ wframes' = wframes + ToWrite
          /\ UNCHANGED <<pc, written, loopres, accepted, failed>>
     ELSE /\ pc' = "done"
          /\ loopres' = "FALSE"
          /\ failed' = TRUE
          /\ UNCHANGED <<written, wframes, accepted, underruns>>
  /\ lastop' = [NoOp EXCEPT !.op = "write", !.k = r.n, !.dev = r.kind]
  /\ UNCHANGED rng
  /\ UNCHANGED sessvars
  /\ UNCHANGED lim
  /\ UNCHANGED smpvars
  /\ UNCHANGED curtime
  /\ UNCHANGED cavars
  /\ UNCHANGED <<queue, note, last_added, current_time, buffer, end_time,
                 nptr, calls, ops, hist, tick, rawbuffer>>

\* One turn of the while (written < framesperbuf) of audev_loop.
AlsaWrite(r) ==
  /\ pc = "dev"
  /\ r.kind = "epipe" => underruns < MaxUnderruns
  /\ IF r.kind = "frames"
     THEN /\ wframes' = wframes + r.n
          /\ accepted' = accepted \o [i \in 1..r.n |-> wframes + i - 1]
          /\ IF wframes + r.n < FramesPerBuf
             THEN UNCHANGED <<pc, written>>
             ELSE /\ pc' = "loop"
                  /\ written' = written + 1
          /\ UNCHANGED <<loopres, underruns, failed>>
     ELSE IF r.kind = "epipe"
     THEN /\ underruns' = underruns + 1
          /\ UNCHANGED <<pc, written, loopres, wframes, accepted, failed>>
     ELSE /\ pc' = "done"
          /\ loopres' = "FALSE"
          /\ failed' = TRUE
          /\ UNCHANGED <<written, wframes, accepted, underruns>>
  /\ lastop' = [NoOp EXCEPT !.op = "write", !.k = r.n, !.dev = r.kind]
  /\ UNCHANGED rng
  /\ UNCHANGED sessvars
  /\ UNCHANGED lim
  /\ UNCHANGED smpvars
  /\ UNCHANGED curtime
  /\ UNCHANGED cavars
  /\ UNCHANGED <<queue, note, last_added, current_time, buffer, end_time,
                 nptr, calls, ops, hist, tick, rawbuffer>>

\* The OSS sink: write(device, rawbuffer, sound_buffersize), whose result
\* is not looked at; the loop goes on to the next mixfunc call.
OssWrite(r) ==
  /\ pc = "dev"
  /\ accepted' = accepted \o [i \in 1..r.n |-> i - 1]
  /\ failed' = (failed \/ r.kind = "error")
  /\ written' = written + 1
  /\ pc' = "loop"
  /\ lastop' = [NoOp EXCEPT !.op = "write", !.k = r.n, !.dev = r.kind]
  /\ UNCHANGED rng
  /\ UNCHANGED sessvars
  /\ UNCHANGED lim
  /\ UNCHANGED smpvars
  /\ UNCHANGED curtime
  /\ UNCHANGED cavars
  /\ UNCHANGED <<queue, note, last_added, current_time, buffer, end_time,
                 nptr, calls, ops, hist, tick, rawbuffer, loopres, wframes,
                 underruns>>

\* A file sink that goes on until curtime is past maxtime.
FileWrite_UntilPast(r) ==
  /\ pc = "dev"
  /\ accepted' = accepted \o [i \in 1..r.n |-> i - 1]
  /\ failed' = (failed \/ r.kind = "error")
  /\ written' = written + 1
  /\ curtime' = curtime + FramesPerBuf
  /\ IF curtime + FramesPerBuf > lim.maxtime
     THEN /\ pc' = "done"
          /\ loopres' = "FALSE"
     ELSE /\ pc' = "loop"
          /\ UNCHANGED loopres
  /\ lastop' = [NoOp EXCEPT !.op = "write", !.k = r.n, !.dev = r.kind]
  /\ UNCHANGED rng
  /\ UNCHANGED sessvars
  /\ UNCHANGED lim
  /\ UNCHANGED smpvars
  /\ UNCHANGED cavars
  /\ UNCHANGED <<queue, note, last_added, current_time, buffer, end_time,
                 nptr, calls, ops, hist, tick, rawbuffer, wframes,
                 underruns>>

\* The file sink: fwrite(rawbuffer, 1, sound_buffersize, device), whose
\* result is not looked at; curtime moves on by one buffer and audev_loop
\* returns FALSE once it has reached maxtime.
FileWrite(r) ==
  /\ pc = "dev"
  /\ accepted' = accepted \o [i \in 1..r.n |-> i - 1]
  /\ failed' = (failed \/ r.kind = "error")
  /\ written' = written + 1
  /\ curtime' = curtime + FramesPerBuf
  /\ IF curtime + FramesPerBuf >= lim.maxtime
     THEN /\ pc' = "done"
          /\ loopres' = "FALSE"
     ELSE /\ pc' = "loop"
          /\ UNCHANGED loopres
  /\ lastop' = [NoOp EXCEPT !.op = "write", !.k = r.n, !.dev = r.kind]
  /\ UNCHANGED rng
  /\ UNCHANGED sessvars
  /\ UNCHANGED lim
  /\ UNCHANGED smpvars
  /\ UNCHANGED cavars
  /\ UNCHANGED <<queue, note, last_added, current_time, buffer, end_time,
                 nptr, calls, ops, hist, tick, rawbuffer, wframes,
                 underruns>>

\* The device write of the sink that was built in.
SinkWrite(r) ==
  IF lim.backend = "oss" THEN OssWrite(r)
  ELSE IF lim.backend = "file" THEN FileWrite(r)
  ELSE AlsaWrite(r)

\* What cboodle_loop hands back to its Python caller once audev_loop has
\* returned: NULL (an exception is raised) when audev_loop returned TRUE,
\* the object None otherwise.
cboodle_loop ==
  IF loopres = "running" THEN "running"
  ELSE IF loopres = "TRUE" THEN "NULL" ELSE "None"

Next ==
  \/ GenerateEnter
  \/ \E inp \in lim.inputs, off \in lim.offsets : CreateNote(inp, off)
  \/ \E k \in AdjustOffsets : noteq_adjust_timebase(k)
  \/ \E c \in Channels, raises \in lim.raises :
       note_destroy_by_channel(c, raises)
  \/ \E res \in BOOLEAN : TickReturn(res)
  \/ \E raises \in lim.raises : MixNote(raises)
  \/ GenerateFinish
  \/ SinkConvert
  \/ \E r \in DevResponses(ToWrite) : SinkWrite(r)

Spec == Init /\ [][Next]_vars

SpecMix == InitMix /\ [][Next]_vars

SpecLoop == InitLoop /\ [][Next]_vars

SpecSink == InitSink /\ [][Next]_vars

SpecOss == InitOss /\ [][Next]_vars

SpecErr == InitErr /\ [][Next]_vars

SpecFile == InitFile /\ [][Next]_vars

\* ------------------------------------------------------- channel volumes
\* The volume attributes a channel may carry: none, an object that is no
\* tuple, a tuple of two items, a 4-tuple whose volumes or whose times are
\* no numbers, the constant volume (0, 0, v, v) with v = 16387/65536, and
\* the fade (0, 4096, 0.0, 1.0).
VolAttrs ==
  {NoAttr, NoTuple,
   PyTuple(<<PyInt(0), PyInt(0)>>),
   PyTuple(<<PyInt(0), PyInt(0), PyStr, PyStr>>),
   PyTuple(<<PyStr, PyStr, PyFloat(1, 2), PyFloat(1, 2)>>),
   PyTuple(<<PyInt(0), PyInt(0), PyFloat(16387, 65536),
             PyFloat(16387, 65536)>>),
   PyTuple(<<PyInt(0), PyInt(4096), PyFloat(0, 1), PyFloat(1, 1)>>)}

\* The volume attributes of a child channel: none, an object that is no
\* tuple, and the constant volume (0, 0, 0.5, 0.5).
KidVolAttrs ==
  {NoAttr, NoTuple,
   PyTuple(<<PyInt(0), PyInt(0), PyFloat(1, 2), PyFloat(1, 2)>>)}

\* Notes on the root channel, on its child and on no channel.
VolInputs ==
  {NoteIn("imp", FracOne, FracOne, 0, 1, "root", FALSE),
   NoteIn("imp", FracOne, FracOne, 0, 1, "kid", FALSE),
   NoteIn("lp", FracOne, 32768, 0, 1, "None", FALSE)}

\* Channels with volume attributes of every kind, in either build.
InitVol ==
  /\ InitState
  /\ NoSample
  /\ \E rv \in VolAttrs, kv \in KidVolAttrs, im \in BOOLEAN :
       lim = [ops |-> VolOps, bufs |-> VolBufs, inputs |-> VolInputs,
              offsets |-> {0}, bigendian |-> FALSE,
              period |-> FramesPerBuf, faults |-> FALSE, backend |-> "alsa",
              raises |-> {FALSE},
              vol |-> [c \in {"root", "kid"} |->
                         IF c = "root" THEN rv ELSE kv],
              intmath |-> im]

SpecVol == InitVol /\ [][Next]_vars

\* ------------------------------------------------- note_create_duration
\* duration = (long)((double)duration * (samp->framerate * pitch))
DurationSrc(s, pitch16, duration) ==
  CDiv(duration * s.frnum * pitch16, s.frden * FracOne)

\* A repetition count that divides without rounding up.
DurationReps_RoundDown(s, pitch16, duration) ==
  IF ~s.hasloop
  THEN 1
  ELSE CDiv(DurationSrc(s, pitch16, duration) - (s.numframes - s.looplen),
            s.looplen)

\* The repetition count note_create_duration hands to note_create_reps.
DurationReps(s, pitch16, duration) ==
  IF ~s.hasloop
  THEN 1
  ELSE CDiv(DurationSrc(s, pitch16, duration) - (s.numframes - s.looplen)
              + (s.looplen - 1),
            s.looplen)

\* The durations asked for, in output frames.
Durations == (-2)..MaxDuration

\* The notes asked for by duration (reps is not used).
DurInputs ==
  {NoteIn(sm, p, FracOne, 0, 0, "None", FALSE) :
     sm \in {"imp", "lp"}, p \in {FracOne, 2 * FracOne}}

InitDur ==
  /\ InitState
  /\ NoSample
  /\ lim = [ops |-> DurOps, bufs |-> DurBufs, inputs |-> DurInputs,
            offsets |-> {-1}, bigendian |-> FALSE,
            period |-> FramesPerBuf, faults |-> FALSE, backend |-> "alsa",
            raises |-> {FALSE}]

\* cboodle_create_note_duration, called by the agents during the tick.
CreateNoteDuration(inp, off, duration) ==
  /\ pc = "tick"
  /\ ops < lim.ops
  /\ ops' = ops + 1
  /\ LET id == Len(note) + 1
         reps == DurationReps(SampleOf(inp.samp), inp.pitch16, duration)
         n == note_create_reps(inp.samp, inp.pitch16, inp.vol16, inp.shiftx,
                               current_time + off, reps, inp.channel,
                               inp.removefunc)
         nt == Append(note, n)
     IN /\ note' = nt
        /\ queue' = noteq_add(queue, nt, last_added, id)
        /\ last_added' = id
        /\ hist' = Append(hist, NewHist(CreateDuration(SampleOf(inp.samp),
                                                      inp.pitch16, reps)))
  /\ lastop' = [NoOp EXCEPT !.op = "create_duration", !.k = duration]
  /\ UNCHANGED rng
  /\ UNCHANGED sessvars
  /\ UNCHANGED lim
  /\ UNCHANGED smpvars
  /\ UNCHANGED sinkvars
  /\ UNCHANGED cavars
  /\ UNCHANGED <<current_time, buffer, end_time, nptr, pc, calls,
                 written, loopres, tick>>

NextDur ==
  \/ GenerateEnter
  \/ \E inp \in lim.inputs, off \in lim.offsets, d \in Durations :
       CreateNoteDuration(inp, off, d)
  \/ \E res \in BOOLEAN : TickReturn(res)
  \/ \E raises \in lim.raises : MixNote(raises)
  \/ GenerateFinish
  \/ SinkConvert
  \/ \E r \in DevResponses(ToWrite) : SinkWrite(r)

SpecDur == InitDur /\ [][NextDur]_vars

\* ------------------------------------------------- the CoreAudio sink
\* audev-macosx.c.  The main thread runs audev_loop and, once that has
\* returned, audev_close_device; the device runs PlaybackIOProc on its own
\* thread.  mixfunc is taken as one step here: the buffer it leaves in
\* valbuffer is identified by the number of the call that produced it.
\* A thread blocked in pthread_cond_wait may wake at any time (on a signal
\* or spuriously); it then takes the mutex again and tests full again.
NextSlot(bx) == IF bx + 1 >= bufcount THEN 0 ELSE bx + 1

InitCA ==
  /\ InitState
  /\ NoSample
  /\ lim = [ops |-> 0, bufs |-> CaBufs, inputs |-> {}, offsets |-> {},
            bigendian |-> FALSE, period |-> FramesPerBuf, faults |-> FALSE,
            backend |-> "macosx", callbacks |-> MaxCallbacks,
            raises |-> {FALSE}]

\* Top of the while (1) of audev_loop: the bailing test and mixfunc.
CaMix(res) ==
  /\ pc = "loop"
  /\ IF bailing
     THEN /\ pc' = "returned"
          /\ loopres' = "FALSE"
          /\ UNCHANGED <<calls, bailing>>
     ELSE /\ (calls < lim.bufs \/ res)
          /\ calls' = calls + 1
          /\ IF res
             THEN /\ bailing' = TRUE
                  /\ pc' = "returned"
                  /\ loopres' = "TRUE"
             ELSE /\ pc' = "ca_lock"
                  /\ UNCHANGED <<bailing, loopres>>
  /\ lastop' = [NoOp EXCEPT !.op = "ca_mix", !.res = res]
  /\ UNCHANGED rng
  /\ UNCHANGED sessvars
  /\ UNCHANGED <<lim, smpvars, sinkvars, mixvars, written>>
  /\ UNCHANGED <<slots, mutex, filling, emptying, started, devrun, cpc,
                 cslot, kbx, out, released>>

\* pthread_mutex_lock(&buffer->mutex) in audev_loop
CaLock ==
  /\ pc = "ca_lock"
  /\ mutex[filling] = "free"
  /\ mutex' = [mutex EXCEPT ![filling] = "mixer"]
  /\ pc' = "ca_check"
  /\ lastop' = [NoOp EXCEPT !.op = "ca_lock"]
  /\ UNCHANGED rng
  /\ UNCHANGED sessvars
  /\ UNCHANGED <<lim, smpvars, sinkvars, mixvars, written, calls, loopres>>
  /\ UNCHANGED <<slots, filling, emptying, started, bailing, devrun, cpc,
                 cslot, kbx, out, released>>

\* A fill that does not wait for the slot to be empty.
CaFill_NoWait ==
  /\ pc = "ca_check"
  /\ mutex' = [mutex EXCEPT ![filling] = "free"]
  /\ slots' = [slots EXCEPT ![filling] = [full |-> TRUE, buf |-> calls]]
  /\ filling' = NextSlot(filling)
  /\ written' = written + 1
  /\ pc' = IF ~started /\ NextSlot(filling) = 0 THEN "ca_start" ELSE "loop"
  /\ lastop' = [NoOp EXCEPT !.op = "ca_fill"]
  /\ UNCHANGED rng
  /\ UNCHANGED sessvars
  /\ UNCHANGED <<lim, smpvars, sinkvars, mixvars, calls, loopres>>
  /\ UNCHANGED <<emptying, started, bailing, devrun, cpc, cslot, kbx, out,
                 released>>

\* With the mutex held: wait while the slot is full, else convert the
\* buffer into the slot, mark it full, advance filling and unlock.
CaFill ==
  /\ pc = "ca_check"
  /\ mutex' = [mutex EXCEPT ![filling] = "free"]
  /\ IF slots[filling].full
     THEN /\ pc' = "ca_wait"
          /\ UNCHANGED <<slots, filling, written>>
     ELSE /\ slots' = [slots EXCEPT ![filling] =
                                     [full |-> TRUE, buf |-> calls]]
          /\ filling' = NextSlot(filling)
          /\ written' = written + 1
          /\ pc' = IF ~started /\ NextSlot(filling) = 0
                   THEN "ca_start" ELSE "loop"
  /\ lastop' = [NoOp EXCEPT !.op = "ca_fill"]
  /\ UNCHANGED rng
  /\ UNCHANGED sessvars
  /\ UNCHANGED <<lim, smpvars, sinkvars, mixvars, calls, loopres>>
  /\ UNCHANGED <<emptying, started, bailing, devrun, cpc, cslot, kbx, out,
                 released>>

\* pthread_cond_wait returns in audev_loop (the mutex is taken in CaLock).
CaWake ==
  /\ pc = "ca_wait"
  /\ pc' = "ca_lock"
  /\ lastop' = [NoOp EXCEPT !.op = "ca_wake"]
  /\ UNCHANGED rng
  /\ UNCHANGED sessvars
  /\ UNCHANGED <<lim, smpvars, sinkvars, mixvars, written, calls, loopres, cavars>>

\* A start of the device that leaves started as it is.
CaStart_NoFlag(ok) ==
  /\ pc = "ca_start"
  /\ IF ok
     THEN /\ devrun' = TRUE
          /\ pc' = "loop"
          /\ UNCHANGED loopres
     ELSE /\ pc' = "returned"
          /\ loopres' = "FALSE"
          /\ UNCHANGED devrun
  /\ lastop' = [NoOp EXCEPT !.op = "ca_start", !.res = ok]
  /\ UNCHANGED rng
  /\ UNCHANGED sessvars
  /\ UNCHANGED <<lim, smpvars, sinkvars, mixvars, written, calls>>
  /\ UNCHANGED <<slots, mutex, filling, emptying, started, bailing, cpc,
                 cslot, kbx, out, released>>

\* All the slots have been filled for the first time: AudioDeviceStart.
CaStart(ok) ==
  /\ pc = "ca_start"
  /\ started' = TRUE
  /\ IF ok
     THEN /\ devrun' = TRUE
          /\ pc' = "loop"
          /\ UNCHANGED loopres
     ELSE /\ pc' = "returned"
          /\ loopres' = "FALSE"
          /\ UNCHANGED devrun
  /\ lastop' = [NoOp EXCEPT !.op = "ca_start", !.res = ok]
  /\ UNCHANGED rng
  /\ UNCHANGED sessvars
  /\ UNCHANGED <<lim, smpvars, sinkvars, mixvars, written, calls>>
  /\ UNCHANGED <<slots, mutex, filling, emptying, bailing, cpc, cslot, kbx,
                 out, released>>

\* cboodle_loop is called again after audev_loop has returned.
CaLoopCall ==
  /\ pc = "returned"
  /\ pc' = "loop"
  /\ loopres' = "running"
  /\ lastop' = [NoOp EXCEPT !.op = "ca_call"]
  /\ UNCHANGED rng
  /\ UNCHANGED sessvars
  /\ UNCHANGED <<lim, smpvars, sinkvars, mixvars, written, calls, cavars>>

\* The device calls PlaybackIOProc, which picks rawbuffer[emptying].
CbEnter ==
  /\ cpc = "idle"
  /\ devrun
  /\ Len(out) < lim.callbacks
  /\ cslot' = emptying
  /\ cpc' = "lock"
  /\ lastop' = [NoOp EXCEPT !.op = "cb_enter"]
  /\ UNCHANGED rng
  /\ UNCHANGED sessvars
  /\ UNCHANGED <<lim, smpvars, sinkvars, mixvars, written, calls, loopres, pc>>
  /\ UNCHANGED <<slots, mutex, filling, emptying, started, bailing, devrun,
                 kbx, out, released>>

\* pthread_mutex_lock(&buffer->mutex) in PlaybackIOProc
CbLock ==
  /\ cpc = "lock"
  /\ mutex[cslot] = "free"
  /\ mutex' = [mutex EXCEPT ![cslot] = "callback"]
  /\ cpc' = "locked"
  /\ lastop' = [NoOp EXCEPT !.op = "cb_lock"]
  /\ UNCHANGED rng
  /\ UNCHANGED sessvars
  /\ UNCHANGED <<lim, smpvars, sinkvars, mixvars, written, calls, loopres, pc>>
  /\ UNCHANGED <<slots, filling, emptying, started, bailing, devrun, cslot,
                 kbx, out, released>>

\* A callback that moves on to the next slot when it finds one not full.
PlaybackIOProc_SkipEmpty ==
  /\ cpc = "locked"
  /\ mutex' = [mutex EXCEPT ![cslot] = "free"]
  /\ IF ~slots[cslot].full
     THEN /\ out' = Append(out, 0)
          /\ emptying' = NextSlot(emptying)
          /\ UNCHANGED slots
     ELSE /\ out' = Append(out, slots[cslot].buf)
          /\ slots' = [slots EXCEPT ![cslot].full = FALSE]
          /\ emptying' = NextSlot(emptying)
  /\ cpc' = "idle"
  /\ lastop' = [NoOp EXCEPT !.op = "callback"]
  /\ UNCHANGED rng
  /\ UNCHANGED sessvars
  /\ UNCHANGED <<lim, smpvars, sinkvars, mixvars, written, calls, loopres, pc>>
  /\ UNCHANGED <<filling, started, bailing, devrun, cslot, kbx, released>>

\* PlaybackIOProc with the mutex held: silence when the slot is not full;
\* else the slot is copied out, marked empty, emptying advances, and the
\* condition is signalled after the unlock.  0 in out stands for a buffer
\* of silence.
PlaybackIOProc ==
  /\ cpc = "locked"
  /\ mutex' = [mutex EXCEPT ![cslot] = "free"]
  /\ IF ~slots[cslot].full
     THEN /\ out' = Append(out, 0)
          /\ UNCHANGED <<slots, emptying>>
     ELSE /\ out' = Append(out, slots[cslot].buf)
          /\ slots' = [slots EXCEPT ![cslot].full = FALSE]
          /\ emptying' = NextSlot(emptying)
  /\ cpc' = "idle"
  /\ lastop' = [NoOp EXCEPT !.op = "callback"]
  /\ UNCHANGED rng
  /\ UNCHANGED sessvars
  /\ UNCHANGED <<lim, smpvars, sinkvars, mixvars, written, calls, loopres, pc>>
  /\ UNCHANGED <<filling, started, bailing, devrun, cslot, kbx, released>>

\* audev_close_device, called once audev_loop has returned: bailing is
\* set and the device is started if it never was.
audev_close_device(ok) ==
  /\ pc = "returned"
  /\ bailing' = TRUE
  /\ started' = TRUE
  /\ IF started
     THEN /\ ok
          /\ pc' = "cl_lock"
          /\ kbx' = 0
          /\ UNCHANGED devrun
     ELSE IF ok
     THEN /\ devrun' = TRUE
          /\ pc' = "cl_lock"
          /\ kbx' = 0
     ELSE /\ pc' = "cl_failed"
          /\ UNCHANGED <<devrun, kbx>>
  /\ lastop' = [NoOp EXCEPT !.op = "close", !.res = ok]
  /\ UNCHANGED rng
  /\ UNCHANGED sessvars
  /\ UNCHANGED <<lim, smpvars, sinkvars, mixvars, written, calls, loopres>>
  /\ UNCHANGED <<slots, mutex, filling, emptying, cpc, cslot, out,
                 released>>

\* pthread_mutex_lock(&buffer->mutex) in audev_close_device
ClLock ==
  /\ pc = "cl_lock"
  /\ mutex[kbx] = "free"
  /\ mutex' = [mutex EXCEPT ![kbx] = "closer"]
  /\ pc' = "cl_check"
  /\ lastop' = [NoOp EXCEPT !.op = "cl_lock"]
  /\ UNCHANGED rng
  /\ UNCHANGED sessvars
  /\ UNCHANGED <<lim, smpvars, sinkvars, mixvars, written, calls, loopres>>
  /\ UNCHANGED <<slots, filling, emptying, started, bailing, devrun, cpc,
                 cslot, kbx, out, released>>

\* A close that does not wait for a full slot.
ClCheck_NoWait ==
  /\ pc = "cl_check"
  /\ mutex' = [mutex EXCEPT ![kbx] = "free"]
  /\ IF kbx + 1 >= bufcount
     THEN /\ pc' = "cl_stop"
          /\ UNCHANGED kbx
     ELSE /\ pc' = "cl_lock"
          /\ kbx' = kbx + 1
  /\ lastop' = [NoOp EXCEPT !.op = "cl_check"]
  /\ UNCHANGED rng
  /\ UNCHANGED sessvars
  /\ UNCHANGED <<lim, smpvars, sinkvars, mixvars, written, calls, loopres>>
  /\ UNCHANGED <<slots, filling, emptying, started, bailing, devrun, cpc,
                 cslot, out, released>>

\* With the mutex held: wait while the slot is full, else unlock and go
\* on to the next slot; after the last one the device is to be stopped.
ClCheck ==
  /\ pc = "cl_check"
  /\ mutex' = [mutex EXCEPT ![kbx] = "free"]
  /\ IF slots[kbx].full
     THEN /\ pc' = "cl_wait"
          /\ UNCHANGED kbx
     ELSE IF kbx + 1 >= bufcount
     THEN /\ pc' = "cl_stop"
          /\ UNCHANGED kbx
     ELSE /\ pc' = "cl_lock"
          /\ kbx' = kbx + 1
  /\ lastop' = [NoOp EXCEPT !.op = "cl_check"]
  /\ UNCHANGED rng
  /\ UNCHANGED sessvars
  /\ UNCHANGED <<lim, smpvars, sinkvars, mixvars, written, calls, loopres>>
  /\ UNCHANGED <<slots, filling, emptying, started, bailing, devrun, cpc,
                 cslot, out, released>>

\* pthread_cond_wait returns in audev_close_device.
ClWake ==
  /\ pc = "cl_wait"
  /\ pc' = "cl_lock"
  /\ lastop' = [NoOp EXCEPT !.op = "cl_wake"]
  /\ UNCHANGED rng
  /\ UNCHANGED sessvars
  /\ UNCHANGED <<lim, smpvars, sinkvars, mixvars, written, calls, loopres, cavars>>

\* AudioDeviceStop, which returns once no PlaybackIOProc is running,
\* audevice = kAudioDeviceUnknown, and the release of the slots.
ClStop ==
  /\ pc = "cl_stop"
  /\ cpc = "idle"
  /\ devrun' = FALSE
  /\ released' = TRUE
  /\ pc' = "closed"
  /\ audevice' = "unknown"
  /\ lastop' = [NoOp EXCEPT !.op = "cl_stop"]
  /\ UNCHANGED rng
  /\ UNCHANGED <<running, aqueue>>
  /\ UNCHANGED <<lim, smpvars, sinkvars, mixvars, written, calls, loopres>>
  /\ UNCHANGED <<slots, mutex, filling, emptying, started, bailing, cpc,
                 cslot, kbx, out>>

NextCA ==
  \/ \E res \in BOOLEAN : CaMix(res)
  \/ CaLock
  \/ CaFill
  \/ CaWake
  \/ \E ok \in BOOLEAN : CaStart(ok)
  \/ CaLoopCall
  \/ CbEnter
  \/ CbLock
  \/ PlaybackIOProc
  \/ \E ok \in BOOLEAN : audev_close_device(ok)
  \/ ClLock
  \/ ClCheck
  \/ ClWake
  \/ ClStop

SpecCA == InitCA /\ [][NextCA]_vars

\* --------------------------------------------- sessions of the callback sinks
\* audev-macosx.c and the AudioQueue sink: the sink is closed and opened
\* again.  Between two calls of the Python module pc is "returned" when the
\* open flag of the sink (audevice, running) is set and "closed" when it is
\* clear.  The run loop, the locking and the close of the AudioQueue sink
\* read like those of the CoreAudio sink, but for the steps below.
SessOps == 2         \* calls of audev_init_device over one run
SessBufs == 4        \* calls of mixfunc over one run
SessCallbacks == 4   \* calls of PlaybackIOProc over one run

\* The places at which audev_init_device of audev-macosx.c can fail: before
\* audevice is set, after it is set, at the malloc of valbuffer, which
\* follows bailing = FALSE, and at AudioDeviceAddIOProc, which follows the
\* set-up of the slots.
CaInitSteps == {"early", "device", "valbuffer", "ioproc", "ok"}

\* audev_init_device of audev-macosx.c.  An open sink is refused; no
\* return FALSE resets audevice or frees what was allocated, and started
\* is cleared on the last line only.
CaInit(step) ==
  /\ pc \in {"returned", "closed"}
  /\ ops < lim.ops
  /\ ops' = ops + 1
  /\ IF audevice # "unknown"
     THEN /\ step = "ok"
          /\ lastop' = [NoOp EXCEPT !.op = "init", !.dev = "already"]
          /\ UNCHANGED <<audevice, pc, emptying, filling, bailing, slots,
                         mutex, started, released>>
     ELSE /\ lastop' = [NoOp EXCEPT !.op = "init", !.res = (step = "ok"),
                                    !.dev = step]
          /\ audevice' = IF step = "early" THEN "unknown" ELSE "dev"
          /\ pc' = IF step = "early" THEN "closed" ELSE "returned"
          /\ IF step \in {"valbuffer", "ioproc", "ok"}
             THEN /\ emptying' = 0
                  /\ filling' = 0
                  /\ bailing' = FALSE
             ELSE UNCHANGED <<emptying, filling, bailing>>
          /\ IF step \in {"ioproc", "ok"}
             THEN /\ slots' = [bx \in 0..(bufcount - 1) |->
                                 [full |-> FALSE, buf |-> 0]]
                  /\ mutex' = [bx \in 0..(bufcount - 1) |-> "free"]
                  /\ released' = FALSE
             ELSE UNCHANGED <<slots, mutex, released>>
          /\ started' = IF step = "ok" THEN FALSE ELSE started
  /\ loopres' = "running"
  /\ UNCHANGED rng
  /\ UNCHANGED <<running, aqueue>>
  /\ UNCHANGED <<lim, smpvars, sinkvars, written, calls>>
  /\ UNCHANGED <<queue, note, last_added, current_time, buffer, end_time,
                 nptr, hist, tick>>
  /\ UNCHANGED <<devrun, cpc, cslot, kbx, out>>

\* audev_init_device of the AudioQueue sink, called on a closed sink: a
\* failure leaves the flags as they are; a success makes a new queue and
\* new buffers and sets running = TRUE, started = FALSE and filling = 0.
AqInit(ok) ==
  /\ pc = "closed"
  /\ ops < lim.ops
  /\ ops' = ops + 1
  /\ lastop' = [NoOp EXCEPT !.op = "init", !.res = ok]
  /\ IF ok
     THEN /\ running' = TRUE
          /\ started' = FALSE
          /\ filling' = 0
          /\ aqueue' = NoQueue
          /\ slots' = [bx \in 0..(bufcount - 1) |->
                         [full |-> FALSE, buf |-> 0]]
          /\ mutex' = [bx \in 0..(bufcount - 1) |-> "free"]
          /\ released' = FALSE
          /\ pc' = "returned"
     ELSE UNCHANGED <<running, started, filling, aqueue, slots, mutex,
                      released, pc>>
  /\ loopres' = "running"
  /\ UNCHANGED rng
  /\ UNCHANGED audevice
  /\ UNCHANGED <<lim, smpvars, sinkvars, written, calls>>
  /\ UNCHANGED <<queue, note, last_added, current_time, buffer, end_time,
                 nptr, hist, tick>>
  /\ UNCHANGED <<emptying, bailing, devrun, cpc, cslot, kbx, out>>

\* audev_loop called on a sink whose open flag is clear: "Sound device is
\* not open.", and FALSE is returned without a call of mixfunc.
LoopNotOpen ==
  /\ pc = "closed"
  /\ lastop.op # "notopen"
  /\ loopres' = "FALSE"
  /\ lastop' = [NoOp EXCEPT !.op = "notopen"]
  /\ UNCHANGED rng
  /\ UNCHANGED sessvars
  /\ UNCHANGED <<lim, smpvars, sinkvars, mixvars, written, calls, pc, cavars>>

\* mixfunc is handed a valbuffer that a failed audev_init_device has left
\* freed or NULL, and the write into it faults: the process ends.  (CaMix
\* is the run in which the write does not fault.)
CaMixWild ==
  /\ pc = "loop"
  /\ ~bailing
  /\ released
  /\ calls < lim.bufs
  /\ pc' = "crashed"
  /\ lastop' = [NoOp EXCEPT !.op = "fault"]
  /\ UNCHANGED rng
  /\ UNCHANGED sessvars
  /\ UNCHANGED <<lim, smpvars, sinkvars, mixvars, written, calls, loopres,
                 cavars>>

\* audev_loop of the AudioQueue sink with the mutex held: wait while the
\* slot is full, else convert the buffer into the slot, mark it full and
\* enqueue it.  When AudioQueueEnqueueBuffer fails the loop returns FALSE
\* as it stands: the mutex is not unlocked and the slot stays full.
AqFill(ok) ==
  /\ pc = "ca_check"
  /\ IF slots[filling].full
     THEN /\ ok
          /\ mutex' = [mutex EXCEPT ![filling] = "free"]
          /\ pc' = "ca_wait"
          /\ UNCHANGED <<slots, filling, written, aqueue, loopres>>
     ELSE /\ slots' = [slots EXCEPT ![filling] =
                                     [full |-> TRUE, buf |-> calls]]
          /\ IF ok
             THEN /\ aqueue' = [aqueue EXCEPT
                                  !.queued = Append(@, filling)]
                  /\ filling' = NextSlot(filling)
                  /\ mutex' = [mutex EXCEPT ![filling] = "free"]
                  /\ written' = written + 1
                  /\ pc' = IF ~started /\ NextSlot(filling) = 0
                           THEN "ca_start" ELSE "loop"
                  /\ UNCHANGED loopres
             ELSE /\ pc' = "returned"
                  /\ loopres' = "FALSE"
                  /\ UNCHANGED <<aqueue, filling, mutex, written>>
  /\ lastop' = [NoOp EXCEPT !.op = "ca_fill", !.res = ok]
  /\ UNCHANGED rng
  /\ UNCHANGED <<audevice, running>>
  /\ UNCHANGED <<lim, smpvars, sinkvars, mixvars, calls>>
  /\ UNCHANGED <<emptying, started, bailing, devrun, cpc, cslot, kbx, out,
                 released>>

\* The running AudioQueue has played the buffer at the head of its queue
\* and calls playCallback with it.
AqCbEnter ==
  /\ cpc = "idle"
  /\ devrun
  /\ Len(aqueue.queued) > 0
  /\ cslot' = Head(aqueue.queued)
  /\ aqueue' = [aqueue EXCEPT !.queued = Tail(@)]
  /\ out' = Append(out, slots[Head(aqueue.queued)].buf)
  /\ cpc' = "lock"
  /\ lastop' = [NoOp EXCEPT !.op = "cb_enter"]
  /\ UNCHANGED rng
  /\ UNCHANGED <<audevice, running>>
  /\ UNCHANGED <<lim, smpvars, sinkvars, mixvars, written, calls, loopres, pc>>
  /\ UNCHANGED <<slots, mutex, filling, emptying, started, bailing, devrun,
                 kbx, released>>

\* playCallback with the mutex held: the slot is marked empty, and the
\* condition is signalled after the unlock.
playCallback ==
  /\ cpc = "locked"
  /\ mutex' = [mutex EXCEPT ![cslot] = "free"]
  /\ slots' = [slots EXCEPT ![cslot].full = FALSE]
  /\ cpc' = "idle"
  /\ lastop' = [NoOp EXCEPT !.op = "callback"]
  /\ UNCHANGED rng
  /\ UNCHANGED sessvars
  /\ UNCHANGED <<lim, smpvars, sinkvars, mixvars, written, calls, loopres, pc>>
  /\ UNCHANGED <<filling, emptying, started, bailing, devrun, cslot, kbx,
                 out, released>>

\* AudioQueueStop and AudioQueueDispose, running = FALSE, and the release
\* of the slots.
AqStop ==
  /\ pc = "cl_stop"
  /\ cpc = "idle"
  /\ devrun' = FALSE
  /\ released' = TRUE
  /\ running' = FALSE
  /\ aqueue' = [queued |-> <<>>, disposed |-> TRUE]
  /\ pc' = "closed"
  /\ lastop' = [NoOp EXCEPT !.op = "cl_stop"]
  /\ UNCHANGED rng
  /\ UNCHANGED audevice
  /\ UNCHANGED <<lim, smpvars, sinkvars, mixvars, written, calls, loopres>>
  /\ UNCHANGED <<slots, mutex, filling, emptying, started, bailing, cpc,
                 cslot, kbx, out>>

\* Is this the run of the CoreAudio sink, or that of the AudioQueue sink?
IsCoreAudio == lim.backend = "macosx"
IsAudioQueue == lim.backend = "audioqueue"

\* The sink is open and audev_loop has been called, with either sink.
InitSess ==
  /\ InitState
  /\ NoSample
  /\ \E be \in {"macosx", "audioqueue"} :
       lim = [ops |-> SessOps, bufs |-> SessBufs, inputs |-> {},
              offsets |-> {}, bigendian |-> FALSE, period |-> FramesPerBuf,
              faults |-> FALSE, backend |-> be,
              callbacks |-> SessCallbacks, raises |-> {FALSE}]

NextSess ==
  \/ \E res \in BOOLEAN : CaMix(res)
  \/ CaLock
  \/ CaWake
  \/ \E ok \in BOOLEAN : CaStart(ok)
  \/ CaLoopCall
  \/ LoopNotOpen
  \/ CbLock
  \/ \E ok \in BOOLEAN : audev_close_device(ok)
  \/ ClLock
  \/ ClCheck
  \/ ClWake
  \/ IsCoreAudio /\ CaFill
  \/ IsCoreAudio /\ CaMixWild
  \/ IsCoreAudio /\ CbEnter
  \/ IsCoreAudio /\ PlaybackIOProc
  \/ IsCoreAudio /\ ClStop
  \/ \E step \in CaInitSteps : IsCoreAudio /\ CaInit(step)
  \/ \E ok \in BOOLEAN : IsAudioQueue /\ AqFill(ok)
  \/ IsAudioQueue /\ AqCbEnter
  \/ IsAudioQueue /\ playCallback
  \/ IsAudioQueue /\ AqStop
  \/ \E ok \in BOOLEAN : IsAudioQueue /\ AqInit(ok)

SpecSess == InitSess /\ [][NextSess]_vars

\* ------------------------------------------------------ sample load/unload
\* The byte strings a load_sample call is given.
DataStrings == UNION {[1..n -> {127, 128}] : n \in 0..MaxDataLen}

\* The arguments of load_sample: frame count, data, loop points, channel
\* count, sample width, signedness and byte order.
LoadArgs ==
  {[numframes |-> nf, data |-> d, loopstart |-> lp[1], loopend |-> lp[2],
    numchannels |-> nc, samplebits |-> sb, issigned |-> sg, isbigend |-> be,
    framerate |-> sound_rate] :
     nf \in 0..MaxDataLen, d \in DataStrings,
     lp \in {<<-1, -1>>, <<0, 1>>, <<1, 0>>, <<0, MaxDataLen + 1>>},
     nc \in {1, 2},
     sb \in {8, 12, 16}, sg \in BOOLEAN, be \in BOOLEAN}

InitSample ==
  /\ InitState
  /\ smp \in {sample_create(hl, g) : hl \in BOOLEAN, g \in {0, 7}}
  /\ slast = NoCall
  /\ lim = [ops |-> 0, bufs |-> 0, inputs |-> {}, offsets |-> {},
            bigendian |-> TRUE, period |-> FramesPerBuf, faults |-> FALSE,
            backend |-> "none", raises |-> {FALSE}]

\* sample_load without the test of samp->error.
sample_load_call_NoErrorTest(s, a, mem) ==
  IF s.loaded
  THEN [samp |-> s, ret |-> "1"]
  ELSE IF a.samplebits # 8 /\ a.samplebits # 16
  THEN [samp |-> [s EXCEPT !.error = TRUE], ret |-> "0"]
  ELSE IF ~mem
  THEN [samp |-> [s EXCEPT !.error = TRUE], ret |-> "0"]
  ELSE [samp |-> sample_load(a.numframes, ConvertData(a), a.loopstart,
                             a.loopend, a.numchannels,
                             Frac(a.framerate, sound_rate).n,
                             Frac(a.framerate, sound_rate).d),
        ret |-> "1"]

\* sample_load as a whole: the sample it leaves and the value it returns.
\* mem: malloc returned memory. The test of the number of values written
\* never fails: the loops write numchanout values for each frame.
sample_load_call(s, a, mem) ==
  IF s.error
  THEN [samp |-> s, ret |-> "0"]
  ELSE IF s.loaded
  THEN [samp |-> s, ret |-> "1"]
  ELSE IF a.samplebits # 8 /\ a.samplebits # 16
  THEN [samp |-> [s EXCEPT !.error = TRUE], ret |-> "0"]
  ELSE IF ~mem
  THEN [samp |-> [s EXCEPT !.error = TRUE], ret |-> "0"]
  ELSE [samp |-> sample_load(a.numframes, ConvertData(a), a.loopstart,
                             a.loopend, a.numchannels,
                             Frac(a.framerate, sound_rate).n,
                             Frac(a.framerate, sound_rate).d),
        ret |-> "1"]

\* The load_sample call of the Python module: it raises ValueError when the
\* data length does not match, and otherwise returns what sample_load does.
cboodle_load_sample(a, mem) ==
  /\ IF Len(a.data) # a.numframes * a.numchannels * (a.samplebits \div 8)
     THEN /\ slast' = [op |-> "load", ret |-> "ValueError",
                       onerror |-> smp.error]
          /\ UNCHANGED smp
     ELSE LET r == sample_load_call(smp, a, mem)
          IN /\ smp' = r.samp
             /\ slast' = [op |-> "load", ret |-> r.ret,
                          onerror |-> smp.error]
  /\ UNCHANGED rng
  /\ UNCHANGED sessvars
  /\ UNCHANGED <<lim, sinkvars, mixvars, cavars>>
  /\ UNCHANGED <<pc, calls, written, loopres, lastop>>

\* sample_unload: the sample it leaves.
sample_unload(s) ==
  IF s.error THEN s ELSE [s EXCEPT !.data = <<>>, !.loaded = FALSE]

\* The unload_sample call of the Python module.
cboodle_unload_sample ==
  /\ smp' = sample_unload(smp)
  /\ slast' = [op |-> "unload", ret |-> "None", onerror |-> smp.error]
  /\ UNCHANGED rng
  /\ UNCHANGED sessvars
  /\ UNCHANGED <<lim, sinkvars, mixvars, cavars>>
  /\ UNCHANGED <<pc, calls, written, loopres, lastop>>

NextSample ==
  \/ \E a \in LoadArgs, mem \in BOOLEAN : cboodle_load_sample(a, mem)
  \/ cboodle_unload_sample

SpecSample == InitSample /\ [][NextSample]_vars

\* ------------------------------------------------------ the ranges vector
\* Bounds of the runs with three nested channels.
RngOps == 2
RngBufs == 2

\* The channel walk of the note under nptr finds numranges >= maxranges and
\* realloc returns NULL: maxranges is doubled already, ranges is NULL, and
\* noteq_generate returns TRUE at once, so that audev_loop returns TRUE.
MixNote_ReallocFails ==
  /\ pc = "mix"
  /\ nptr <= Len(queue)
  /\ note[queue[nptr]].starttime < end_time
  /\ LET n == note[queue[nptr]]
         m == MixLocals(n, buffer, current_time, end_time)
     IN Len(m.w.ranges) > rng.max
  /\ rng' = RangesFailed(rng)
  /\ pc' = "done"
  /\ loopres' = "TRUE"
  /\ lastop' = [NoOp EXCEPT !.op = "nomem"]
  /\ UNCHANGED sessvars
  /\ UNCHANGED lim
  /\ UNCHANGED smpvars
  /\ UNCHANGED sinkvars
  /\ UNCHANGED cavars
  /\ UNCHANGED <<queue, note, last_added, current_time, buffer, end_time,
                 nptr, calls, ops, written, hist, tick>>

\* The channel walk of the note under nptr writes a range through the NULL
\* that a failed realloc has left in ranges, and the write faults: the
\* process ends.  (MixNote is the run in which the write does not fault.)
MixRangesFault ==
  /\ pc = "mix"
  /\ nptr <= Len(queue)
  /\ note[queue[nptr]].starttime < end_time
  /\ LET n == note[queue[nptr]]
         m == MixLocals(n, buffer, current_time, end_time)
     IN /\ RangesAfter(rng, Len(m.w.ranges)).wild
        /\ rng' = RangesAfter(rng, Len(m.w.ranges))
  /\ pc' = "crashed"
  /\ lastop' = [NoOp EXCEPT !.op = "fault"]
  /\ UNCHANGED sessvars
  /\ UNCHANGED lim
  /\ UNCHANGED smpvars
  /\ UNCHANGED sinkvars
  /\ UNCHANGED cavars
  /\ UNCHANGED <<queue, note, last_added, current_time, buffer, end_time,
                 nptr, calls, ops, written, loopres, hist, tick>>

\* cboodle_loop is called again after it has returned.
LoopAgain ==
  /\ pc = "done"
  /\ pc' = "loop"
  /\ loopres' = "running"
  /\ lastop' = [NoOp EXCEPT !.op = "call"]
  /\ UNCHANGED rng
  /\ UNCHANGED sessvars
  /\ UNCHANGED lim
  /\ UNCHANGED smpvars
  /\ UNCHANGED sinkvars
  /\ UNCHANGED cavars
  /\ UNCHANGED <<queue, note, last_added, current_time, buffer, end_time,
                 nptr, calls, ops, written, hist, tick>>

\* The volume attributes of the three nested channels: a constant volume
\* or a fade that is under way from the first buffer on.
RngAttrs ==
  {PyTuple(<<PyInt(0), PyInt(0), PyFloat(1, 2), PyFloat(1, 2)>>),
   PyTuple(<<PyInt(0), PyInt(16), PyFloat(0, 1), PyFloat(1, 1)>>)}

\* Notes on the innermost channel and on its parent.
RngInputs ==
  {NoteIn("imp", FracOne, FracOne, 0, 1, "leaf", FALSE),
   NoteIn("imp", FracOne, FracOne, 0, 1, "kid", FALSE)}

InitRng ==
  /\ InitState
  /\ NoSample
  /\ \E rv \in RngAttrs, kv \in RngAttrs, lv \in RngAttrs :
       lim = [ops |-> RngOps, bufs |-> RngBufs, inputs |-> RngInputs,
              offsets |-> {0, 1}, bigendian |-> FALSE,
              period |-> FramesPerBuf, faults |-> FALSE, backend |-> "alsa",
              raises |-> {FALSE},
              vol |-> [c \in {"root", "kid", "leaf"} |->
                         IF c = "root" THEN rv
                         ELSE IF c = "kid" THEN kv ELSE lv],
              intmath |-> FALSE]

NextRng ==
  \/ GenerateEnter
  \/ \E inp \in lim.inputs, off \in lim.offsets : CreateNote(inp, off)
  \/ \E res \in BOOLEAN : TickReturn(res)
  \/ \E raises \in lim.raises : MixNote(raises)
  \/ MixNote_ReallocFails
  \/ MixRangesFault
  \/ GenerateFinish
  \/ SinkConvert
  \/ \E r \in DevResponses(ToWrite) : SinkWrite(r)
  \/ LoopAgain

SpecRng == InitRng /\ [][NextRng]_vars

\* ------------------------------------------------------- a fade under way
\* Bounds of the runs with a fade of RampLen frames on the root channel.
RampOps == 1
RampBufs == 66
RampLen == 300

\* The root channel fades from 0.0 to 1.0 over the frames 0..RampLen; the
\* build is the one with BOODLER_INTMATH; the notes have the volume 0.5.
InitRamp ==
  /\ InitState
  /\ NoSample
  /\ lim = [ops |-> RampOps, bufs |-> RampBufs,
            inputs |-> {NoteIn("imp", FracOne, 32768, 0, 1, "root", FALSE)},
            offsets |-> {0}, bigendian |-> FALSE,
            period |-> FramesPerBuf, faults |-> FALSE, backend |-> "alsa",
            raises |-> {FALSE},
            vol |-> [c \in {"root", "kid"} |->
                       IF c = "root"
                       THEN PyTuple(<<PyInt(0), PyInt(RampLen),
                                      PyFloat(0, 1), PyFloat(1, 1)>>)
                       ELSE NoAttr],
            intmath |-> TRUE]

SpecRamp == InitRamp /\ [][Next]_vars

\* ------------------------------------------------- generate, again and again
\* Bounds of the runs in which the tick callback never asks to stop.
LiveOps == 2
LiveBufs == 7

\* The frames generated before the run starts: all the whole buffers that
\* fit into the 65536 frames a note at the smallest step needs to move on
\* by one frame of its sample, but the last.
LiveElapsed == ((FracOne \div FramesPerBuf) - 1) * FramesPerBuf

\* A note of a pitch so low that pitch * 0x10000 rounds to 0, created on
\* the two-frame sample at time 0 and mixed ever since.
SlowNote ==
  [note_create_reps("two", 0, FracOne, 0, 0, 1, "None", FALSE)
     EXCEPT !.framefrac = LiveElapsed]

\* Notes at a quarter of the pitch and notes that go round their loop.
LiveInputs ==
  {NoteIn("imp", 16384, FracOne, 0, 1, "None", FALSE),
   NoteIn("lp", FracOne, FracOne, 0, 2, "None", FALSE)}

\* The run is under way: LiveElapsed frames have been generated and the
\* slow note is still in the queue.
InitLive ==
  /\ InitRun
  /\ NoSample
  /\ queue = <<1>>
  /\ note = <<SlowNote>>
  /\ last_added = 1
  /\ current_time = LiveElapsed
  /\ hist = <<[NewHist(0) EXCEPT !.played = LiveElapsed]>>
  /\ lim = [ops |-> LiveOps, bufs |-> LiveBufs, inputs |-> LiveInputs,
            offsets |-> {0, FramesPerBuf}, bigendian |-> FALSE,
            period |-> FramesPerBuf, faults |-> FALSE, backend |-> "alsa",
            raises |-> {FALSE}]

\* A step of the run loop other than the mixing of a note, in a run in
\* which the tick callback returns `continue'.
LoopStep ==
  \/ GenerateEnter
  \/ TickReturn(FALSE)
  \/ GenerateFinish
  \/ SinkConvert
  \/ \E r \in DevResponses(ToWrite) : SinkWrite(r)

\* The note under nptr is due in this buffer: MixNote can be taken.
MixDue ==
  /\ pc = "mix"
  /\ nptr <= Len(queue)
  /\ note[queue[nptr]].starttime < end_time

\* The agents create their notes during the first tick of the run; the loop
\* goes on for LiveBufs buffers.
NextLive ==
  \/ \E inp \in lim.inputs, off \in lim.offsets :
       calls = 1 /\ CreateNote(inp, off)
  \/ LoopStep
  \/ \E raises \in lim.raises : MixNote(raises)

\* audev_loop is a while (1) and noteq_generate a loop over the due notes:
\* the loop always takes its next step.  The last conjunct is weak fairness
\* of MixNote, with MixDue for its enabling condition.
SpecLive ==
  /\ InitLive
  /\ [][NextLive]_vars
  /\ WF_vars(LoopStep)
  /\ ([]<>(~MixDue) \/ []<><<\E raises \in lim.raises : MixNote(raises)>>_vars)

\* ------------------------------------------- notes on a changing sample
\* The load_sample calls of a run of SpecSmp: 8-bit mono data of one frame
\* or of MaxDataLen frames, without a loop, with a loop inside the data or with a loop that
\* ends past the data, and a call with a sample size that is refused.
SmpLoads ==
  {a \in LoadArgs :
     /\ a.numframes \in {1, MaxDataLen}
     /\ a.data = [k \in 1..a.numframes |-> IF k % 2 = 1 THEN 127 ELSE 128]
     /\ a.numchannels = 1
     /\ a.samplebits \in {8, 12}
     /\ a.issigned
     /\ ~a.isbigend
     /\ <<a.loopstart, a.loopend>>
          \in {<<-1, -1>>, <<0, 1>>, <<0, MaxDataLen + 1>>}}

\* Notes on the sample the load and unload calls work on.
SmpInputs ==
  {NoteIn("smp", FracOne, FracOne, 0, r, "None", FALSE) : r \in {1, 2}}

\* The sample is created and not yet loaded; the fields sample_create leaves
\* unset hold either of two values, and so does the memory around the data.
InitSmp ==
  /\ InitState
  /\ smp \in {sample_create(hl, g) : hl \in BOOLEAN, g \in {1, 2}}
  /\ slast = NoCall
  /\ \E hv \in {0, 77} :
       lim = [ops |-> SmpOps, bufs |-> SmpBufs, inputs |-> SmpInputs,
              offsets |-> {0, FramesPerBuf - MaxDataLen},
              bigendian |-> FALSE, period |-> FramesPerBuf,
              faults |-> FALSE, backend |-> "alsa", raises |-> {FALSE},
              heap |-> hv]

\* load_sample and unload_sample, called by the agents during the tick.
LoadSample(a, mem) == pc = "tick" /\ cboodle_load_sample(a, mem)
UnloadSample == pc = "tick" /\ cboodle_unload_sample

\* The frame loop of the note under nptr reads outside the sample data and
\* the read faults: the process ends.
MixFault ==
  /\ pc = "mix"
  /\ nptr <= Len(queue)
  /\ note[queue[nptr]].starttime < end_time
  /\ LET id == queue[nptr]
         n == note[id]
         s == SampleOf(n.sample)
     IN \E m \in {MixFrames(n, s,
                             MixLocals(n, buffer, current_time, end_time),
                             NoteStart(n.starttime, current_time))} :
        /\ m.oob
        /\ rng' = RangesAfter(rng, Len(m.w.ranges))
        /\ hist' = [hist EXCEPT ![id].oob = TRUE,
                                ![id].absent = @ \/ ~s.loaded]
  /\ pc' = "crashed"
  /\ lastop' = [NoOp EXCEPT !.op = "fault"]
  /\ UNCHANGED sessvars
  /\ UNCHANGED lim
  /\ UNCHANGED smpvars
  /\ UNCHANGED sinkvars
  /\ UNCHANGED cavars
  /\ UNCHANGED <<queue, note, last_added, current_time, buffer, end_time,
                 nptr, calls, ops, written, loopres, tick>>

NextSmp ==
  \/ GenerateEnter
  \/ \E inp \in lim.inputs, off \in lim.offsets : CreateNote(inp, off)
  \/ \E a \in SmpLoads, mem \in BOOLEAN : LoadSample(a, mem)
  \/ UnloadSample
  \/ \E res \in BOOLEAN : TickReturn(res)
  \/ \E raises \in lim.raises : MixNote(raises)
  \/ MixFault
  \/ GenerateFinish
  \/ SinkConvert
  \/ \E r \in DevResponses(ToWrite) : SinkWrite(r)

SpecSmp == InitSmp /\ [][NextSmp]_vars

\* ==================================================================== C1
\* The ids of the notes linked in the queue.
Queued == {queue[i] : i \in 1..Len(queue)}

\* C1: walking the queue from the head yields non-decreasing start_time,
\* after any creations, timebase shifts, channel stops and generate calls.
C1_QueueSorted ==
  \A i \in 1..(Len(queue) - 1) :
    note[queue[i]].starttime <= note[queue[i + 1]].starttime

\* A note created later stands before an earlier one of greater start
\* time, after a buffer has been generated.
C1_Witness ==
  /\ written >= 1
  /\ Len(queue) >= 2
  /\ queue[1] > queue[2]
  /\ note[queue[1]].starttime < note[queue[2]].starttime

\* ==================================================================== C2
\* C2 (as claimed): of two queued notes of equal start_time, the one
\* created earlier precedes the one created later.
C2_StableOnEqualKeys ==
  \A i, j \in 1..Len(queue) :
    (i < j /\ note[queue[i]].starttime = note[queue[j]].starttime)
      => queue[i] < queue[j]

\* The position of the hint noteq_add resumes from, 0 when it starts at
\* the head.
HintPos(starttime) ==
  IF last_added # NULL /\ note[last_added].starttime <= starttime
  THEN PosOf(queue, last_added)
  ELSE 0

\* C2 (amended): a new note goes behind the notes of equal start_time that
\* lie at or before a usable hint (last_added set, its start_time not
\* greater than the new one's) and ahead of every other note of equal
\* start_time; no step changes the relative order of two queued notes.
C2_StableUpToHint ==
  [][/\ lastop'.op = "create" =>
          LET id == Len(note')
              st == note'[id].starttime
          IN \A i \in 1..Len(queue) :
               note[queue[i]].starttime = st =>
                 ((PosOf(queue', queue[i]) < PosOf(queue', id))
                    <=> (i <= HintPos(st)))
     /\ \A i, j \in 1..Len(queue) :
          (i < j /\ PosOf(queue', queue[i]) # 0 /\ PosOf(queue', queue[j]) # 0)
            => PosOf(queue', queue[i]) < PosOf(queue', queue[j])
    ]_vars

\* A note has just been created and stands ahead of an earlier note of the
\* same start_time.
C2_Witness ==
  /\ lastop.op = "create"
  /\ \E i, j \in 1..Len(queue) :
       /\ i < j
       /\ queue[i] = Len(note)
       /\ note[queue[i]].starttime = note[queue[j]].starttime

\* ==================================================================== C3
RECURSIVE IsAncestor(_, _)
\* Is channel a reached from channel c by following parent links?
IsAncestor(c, a) ==
  /\ a # "None"
  /\ ChanParent(c) # "None"
  /\ (ChanParent(c) = a \/ IsAncestor(ChanParent(c), a))

\* Is c the channel a or one of its descendants?
ChannelUnder(c, a) == c = a \/ IsAncestor(c, a)

\* The notes of q that are not on channel a nor below it, in order.
Survivors(q, a) ==
  SelectSeq(q, LAMBDA id : ~ChannelUnder(note[id].channel, a))

\* C3: destroy_notes_by_channel(C) leaves in the queue exactly the notes
\* whose channel is neither C nor a descendant of C.
C3_DestroyByChannel ==
  [][lastop'.op = "destroy" => queue' = Survivors(queue, lastop'.chan)]_vars

\* A stop has removed a note on a descendant of the channel and left
\* another note in the queue.
C3_Witness ==
  /\ lastop.op = "destroy"
  /\ Len(queue) >= 1
  /\ \E id \in DOMAIN note :
       /\ hist[id].removed = "channel"
       /\ note[id].channel # lastop.chan

\* ==================================================================== C4
\* C4: adjust_timebase(k) subtracts k from current_time and from the
\* start_time of every queued note, and changes nothing else.
C4_AdjustTimebase ==
  [][lastop'.op = "adjust" =>
       /\ current_time' = current_time - lastop'.k
       /\ queue' = queue
       /\ \A id \in Queued :
            /\ note'[id] = [note[id] EXCEPT !.starttime = @ - lastop'.k]
            /\ note'[id].starttime - current_time'
                 = note[id].starttime - current_time
       /\ UNCHANGED <<last_added, buffer, hist>>
    ]_vars

\* The timebase has been shifted under two queued notes, one of them
\* partly played.
C4_Witness ==
  /\ lastop.op = "adjust"
  /\ Len(queue) >= 2
  /\ \E id \in Queued : note[id].framepos > 0

\* ==================================================================== C5
\* C5: a note reaped by generate has had its completion callback (if it
\* has one) invoked exactly once, and a note still queued has had it
\* invoked never.
C5_ReapCallsOnce ==
  \A id \in DOMAIN note :
    /\ hist[id].removed = "generate" =>
         hist[id].cb = (IF note[id].removefunc THEN 1 ELSE 0)
    /\ hist[id].removed = "no" => hist[id].cb = 0

\* A note with a remover was reaped in the first buffer, and two buffers
\* have been generated since the run began.
C5_Witness ==
  /\ written >= 2
  /\ \E id \in DOMAIN note :
       /\ hist[id].removed = "generate"
       /\ note[id].removefunc
       /\ hist[id].first[1].ct = 0
       /\ hist[id].played < FramesPerBuf

\* ==================================================================== C6
\* C6 (as claimed): destroy_notes_by_channel removes notes without invoking
\* their on_remove callback; the callback is invoked on the reap path only.
C6_StopCallsNoRemover ==
  \A id \in DOMAIN note :
    /\ hist[id].removed = "channel" => hist[id].cb = 0
    /\ hist[id].cb > 0 => hist[id].removed = "generate"

\* C6 (amended): destroy_notes_by_channel removes each matching note with
\* note_destroy, as the reap path of generate does, so the on_remove
\* callback of a removed note (if it has one) is invoked exactly once.
C6_StopCallsRemover ==
  \A id \in DOMAIN note :
    hist[id].removed = "channel" =>
      hist[id].cb = (IF note[id].removefunc THEN 1 ELSE 0)

\* A note with a remover has been removed by a channel stop.
C6_Witness ==
  \E id \in DOMAIN note :
    /\ hist[id].removed = "channel"
    /\ note[id].removefunc
    /\ hist[id].cb = 1

\* ==================================================================== C7
\* C7: each call of generate invokes the tick callback exactly once, with
\* the current_time of entry, before the buffer is zeroed and before any
\* note is mixed.
C7_TickOnceBeforeMix ==
  [][/\ lastop'.op = "enter" =>
          /\ tick'.count = 1
          /\ tick'.arg = current_time
          /\ UNCHANGED <<buffer, queue, note, hist, current_time>>
     /\ lastop'.op # "enter" =>
          /\ tick'.count = tick.count
          /\ tick'.arg = tick.arg
     /\ pc' = "tick" => (~tick'.zeroed /\ tick'.mixed = 0)
     /\ pc' \in {"mix", "write"} => (tick'.count = 1 /\ tick'.zeroed)
    ]_vars

\* A note has been mixed in a call whose tick callback shifted the
\* timebase: the callback saw the time of entry.
C7_Witness ==
  /\ pc = "mix"
  /\ tick.mixed >= 1
  /\ tick.count = 1
  /\ tick.arg + FramesPerBuf # end_time

\* ==================================================================== C8
\* C8: when the tick callback signals stop, generate returns at once: no
\* note is mixed or reaped, current_time does not advance, and the run
\* loop returns TRUE without writing another buffer.
C8_StopReturnsAtOnce ==
  [][/\ (lastop'.op = "tickreturn" /\ lastop'.res) =>
          /\ pc' = "done"
          /\ loopres' = "TRUE"
          /\ written' = calls' - 1
          /\ UNCHANGED <<queue, note, last_added, current_time, buffer,
                         hist, written, calls>>
     /\ loopres # "running" => UNCHANGED <<written, buffer, current_time>>
     /\ pc' = "done" => loopres' = "TRUE"
    ]_vars

\* The run loop has returned on a stop while a note was due, after a
\* buffer had been written.
C8_Witness ==
  /\ pc = "done"
  /\ loopres = "TRUE"
  /\ written >= 1
  /\ \E id \in Queued : note[id].starttime < current_time + FramesPerBuf

\* ==================================================================== C9
\* C9: a looping note created with reps = k and played at unit rate has
\* contributed exactly num_frames + (k-1)*loop_len output frames when it is
\* reaped.
C9_LoopFrames ==
  \A id \in DOMAIN note :
    LET s == Samples[note[id].sample]
    IN (/\ hist[id].removed = "generate"
        /\ s.hasloop
        /\ LPitch(s, note[id].pitch16) = FracOne)
         => hist[id].played
              = s.numframes + (note[id].repetitions - 1) * s.looplen

\* =================================================================== C10
\* C10: a note first mixed after its start_time contributes from buffer
\* offset 0 and source frame 0; a note starting inside the buffer first
\* contributes at offset start_time - current_time and adds nothing to the
\* frames before it.
C10_FirstMixOffset ==
  [][lastop'.op = "mix" =>
       LET id == queue[nptr]
           n == note[id]
           off == IF n.starttime < current_time
                  THEN 0
                  ELSE n.starttime - current_time
           f == hist'[id].first[1]
       IN hist[id].first = <<>> =>
            /\ f.log[1] = <<off, 0>>
            /\ \A k \in 1..Len(f.log) : f.log[k][1] >= off
            /\ \A i \in 1..(2 * off) : buffer'[i] = buffer[i]
    ]_vars

\* One note was first mixed after its start_time, another at a start_time
\* inside the buffer.
C10_Witness ==
  \E a, b \in DOMAIN note :
    /\ hist[a].first # <<>>
    /\ hist[b].first # <<>>
    /\ hist[a].first[1].st < hist[a].first[1].ct
    /\ hist[b].first[1].st > hist[b].first[1].ct

\* =================================================================== C11
\* C11: a call of generate in which no note is due (the queue is empty, or
\* every queued note starts at or after end_time) leaves exactly zero in
\* all 2*frames_per_buffer entries of the buffer, whatever it held before.
C11_SilentBuffer ==
  (pc \in {"mix", "write"} /\ tick.mixed = 0) =>
    \A i \in 1..(2 * FramesPerBuf) : buffer[i] = 0

\* A buffer is ready to be written in which no note was due although a
\* note is queued, after an earlier buffer had a note mixed into it.
C11_Witness ==
  /\ pc = "write"
  /\ tick.mixed = 0
  /\ Len(queue) >= 1
  /\ \A i \in 1..Len(queue) : note[queue[i]].starttime >= current_time
  /\ \E id \in DOMAIN note : hist[id].played > 0

\* =================================================================== C12
\* The signed 16-bit sample the device reads at index ix of rawbuffer, in
\* the byte order of the stream.
EmittedSample(ix) ==
  LET b1 == rawbuffer[2 * ix - 1]
      b2 == rawbuffer[2 * ix]
      u == IF lim.bigendian THEN b1 * 256 + b2 ELSE b2 * 256 + b1
  IN IF u >= 32768 THEN u - 65536 ELSE u

\* C12: every 16-bit sample handed to the device lies in [-0x7FFF, 0x7FFF]
\* whatever the mixer accumulated, and an accumulated value inside that
\* range is emitted unchanged.
C12_EmittedRange ==
  pc = "dev" =>
    \A ix \in 1..(2 * FramesPerBuf) :
      /\ EmittedSample(ix) \in -32767..32767
      /\ buffer[ix] \in -32767..32767 => EmittedSample(ix) = buffer[ix]

\* A converted buffer in which the mixer had accumulated -0x8000, a value
\* above 0x7FFF and a value inside the range.
C12_Witness ==
  /\ pc = "dev"
  /\ \E i \in 1..(2 * FramesPerBuf) : buffer[i] = -32768
  /\ \E i \in 1..(2 * FramesPerBuf) : buffer[i] > 32767
  /\ \E i \in 1..(2 * FramesPerBuf) : buffer[i] \in 1..32767

\* =================================================================== C13
\* C13: in the ALSA sink an underrun is followed by a re-prepare and a
\* retry from the first frame not yet accepted: the frames the device has
\* accepted of a buffer are frames 0, 1, ... in order with none dropped or
\* duplicated, all frames_per_buffer of them once the buffer is done, and
\* the mixer is not called (current_time stays at the end of the buffer)
\* while the buffer is being written.
C13_UnderrunRetry ==
  /\ pc = "dev" =>
       /\ wframes < FramesPerBuf
       /\ accepted = [i \in 1..wframes |-> i - 1]
       /\ current_time = end_time
       /\ written = calls - 1
  /\ (written >= 1 /\ pc # "dev" /\ loopres # "FALSE") =>
       accepted = [i \in 1..FramesPerBuf |-> i - 1]
  /\ pc \in {"tick", "mix", "write"} => written = calls - 1

\* The first buffer has been accepted whole although the device reported
\* an underrun while it was being written.
C13_Witness ==
  /\ pc = "loop"
  /\ lastop.op = "write"
  /\ written = 1
  /\ underruns >= 1
  /\ accepted = [i \in 1..FramesPerBuf |-> i - 1]

\* =================================================================== C14
\* C14: in every sink backend, once a device write has failed for good the
\* run loop ends: no further buffer is mixed and none is written.
C14_WriteErrorEndsLoop ==
  [][failed => UNCHANGED <<calls, written, buffer, rawbuffer, accepted>>]_vars

\* =================================================================== C15
\* C15: when the run loop has ended because of a device error, the caller
\* of the loop entry point gets an error outcome: a device failure is
\* never reported as a normal return.
C15_DeviceErrorSurfaces ==
  (failed /\ loopres # "running") => cboodle_loop = "NULL"

\* =================================================================== C16
\* The buffers the callback has consumed, without the buffers of silence.
Consumed == SelectSeq(out, LAMBDA b : b # 0)

FullSlots == {bx \in 0..(bufcount - 1) : slots[bx].full}

\* C16: in the CoreAudio sink, under every interleaving of the mixer and
\* the device callback, the buffers the callback consumes are the buffers
\* the mixer filled, in the order of filling: none is skipped or consumed
\* twice, and a filled buffer not yet consumed is still in its slot.
C16_FifoBuffers ==
  /\ Consumed = [i \in 1..Len(Consumed) |-> i]
  /\ Len(Consumed) + Cardinality(FullSlots) = written
  /\ \A bx \in FullSlots :
       /\ slots[bx].buf \in (Len(Consumed) + 1)..written
       /\ \A by \in FullSlots : slots[by].buf = slots[bx].buf => by = bx
  /\ FullSlots # {} => slots[emptying].buf = Len(Consumed) + 1

\* The callback has consumed more buffers than there are slots, and has
\* also found a slot empty once.
C16_Witness ==
  /\ Len(Consumed) > bufcount
  /\ Len(out) > Len(Consumed)

\* =================================================================== C17
\* C17: a device callback that finds the slot at the emptying cursor not
\* full outputs a buffer of silence and returns: it waits on no condition
\* variable, and leaves every full flag and the emptying cursor as they
\* were.
C17_UnderflowSilence ==
  [][(lastop'.op = "callback" /\ ~slots[cslot].full) =>
        /\ out' = Append(out, 0)
        /\ cpc' = "idle"
        /\ mutex'[cslot] = "free"
        /\ UNCHANGED <<slots, emptying, filling>>
    ]_vars

\* The callback has just put out silence while the mixer was at work on a
\* buffer, after it had consumed a filled one.
C17_Witness ==
  /\ lastop.op = "callback"
  /\ Len(out) >= 2
  /\ out[Len(out)] = 0
  /\ Len(Consumed) >= 1
  /\ pc \in {"ca_lock", "ca_check"}

C19_RemoverErrorContinues ==
  [][/\ (lastop'.op = "mix" /\ lastop'.res) =>
          /\ queue' = noteq_remove(queue, nptr)
          /\ hist'[queue[nptr]].err
          /\ hist'[queue[nptr]].removed = "generate"
          /\ pc' = "mix"
          /\ nptr' = nptr
          /\ loopres' = "running"
          /\ UNCHANGED <<current_time, end_time>>
     /\ (lastop'.op = "finish" /\ tick.errs > 0) =>
          /\ current_time' = current_time + FramesPerBuf
          /\ pc' = "write"
          /\ loopres' = "running"
          /\ \A id \in Queued :
               note[id].starttime < end_time => hist[id].mixedin = calls
    ]_vars

\* generate has returned after a call in which the remover of the first
\* due note raised and a later note was mixed all the same.
C19_Witness ==
  /\ pc = "write"
  /\ tick.errs >= 1
  /\ \E a, b \in DOMAIN note :
       /\ hist[a].err
       /\ hist[a].removed = "generate"
       /\ hist[a].mixedin = calls
       /\ note[a].starttime < note[b].starttime
       /\ hist[b].mixedin = calls

\* =================================================================== C20
\* C20: a load that fails its validation leaves the sample with error set
\* and loaded clear and changes no other field; once error is set, a load
\* call never succeeds and neither load nor unload changes any field of the
\* sample, so error is never cleared.
C20_LoadErrorSticky ==
  [][/\ smp.error =>
          /\ smp' = smp
          /\ slast'.op = "load" => slast'.ret # "1"
     /\ (~smp.error /\ slast'.op = "load" /\ slast'.ret = "0") =>
          /\ smp' = [smp EXCEPT !.error = TRUE]
          /\ ~smp'.loaded
     /\ (~smp.error /\ smp'.error) =>
          /\ slast'.op = "load"
          /\ slast'.ret = "0"]_vars

\* A load call has been made on a sample whose error was already set.
C20_Witness ==
  /\ smp.error
  /\ ~smp.loaded
  /\ slast.op = "load"
  /\ slast.onerror
  /\ slast.ret = "0"

\* =================================================================== C27
\* C27: current_time changes in two ways only.  A generate call that
\* returns FALSE (continue) adds framesperbuf to the value it had when the
\* tick callback returned, and noteq_adjust_timebase(k) subtracts k from
\* it; creating a note, stopping a channel, the walk over the notes, a
\* generate call that returns TRUE (stop) and the device writes leave it
\* as it was.
C27_ClockSteps ==
  [][/\ lastop'.op = "finish" =>
          /\ current_time' = current_time + FramesPerBuf
          /\ current_time' = end_time
     /\ lastop'.op = "adjust" => current_time' = current_time - lastop'.k
     /\ lastop'.op \notin {"finish", "adjust"} => UNCHANGED current_time
    ]_vars

\* A generate call has returned FALSE after the tick callback moved the
\* timebase: the clock is one buffer past the moved value.
C27_Witness ==
  /\ lastop.op = "finish"
  /\ pc = "write"
  /\ current_time # tick.arg + FramesPerBuf
  /\ current_time = end_time

\* =================================================================== C28
\* C28: in one generate call the notes mixed are exactly the queued notes
\* that start before end_time, each once and in queue order, a note that
\* follows a reaped note included; mixing a note changes no other note, so
\* a note that starts at or after end_time is not modified.
C28_WalkVisitsDueNotes ==
  [][/\ lastop'.op = "mix" =>
          /\ note[queue[nptr]].starttime < end_time
          /\ \A j \in 1..Len(tick.seq) : tick.seq[j] # queue[nptr]
          /\ hist'[queue[nptr]].played > hist[queue[nptr]].played
          /\ \A o \in DOMAIN note : o # queue[nptr] => note'[o] = note[o]
     /\ lastop'.op = "finish" =>
          /\ tick.seq = tick.due
          /\ \A o \in Queued :
               note[o].starttime >= end_time => hist[o].played = 0
    ]_vars

\* generate has returned after a call that reaped one note and then mixed
\* the note that followed it in the queue.
C28_Witness ==
  /\ lastop.op = "finish"
  /\ Len(tick.seq) >= 2
  /\ hist[tick.seq[1]].removed = "generate"
  /\ hist[tick.seq[1]].mixedin = calls
  /\ hist[tick.seq[2]].mixedin = calls
  /\ tick.seq = tick.due

\* =================================================================== C30
\* C30: a sample that load has succeeded on and that has a loop satisfies
\* 0 <= loopstart < loopend <= numframes and looplen = loopend - loopstart
\* > 0, whatever loop points were passed to load.
C30_LoopWithinSample ==
  (smp.loaded /\ smp.hasloop) =>
     /\ 0 <= smp.loopstart
     /\ smp.loopstart < smp.loopend
     /\ smp.loopend <= smp.numframes
     /\ smp.looplen = smp.loopend - smp.loopstart
     /\ smp.looplen > 0

\* =================================================================== C25
\* a / b rounded up, for b > 0.
Ceil(a, b) == -((-a) \div b)

\* The source frames a note of r repetitions runs through.
TotalLength(s, r) == s.numframes + (r - 1) * s.looplen

\* C25: a note created by duration on a sample without a loop plays the
\* sample once.  On a sample with a loop its repetition count is
\* max(1, ceil((duration_src - margins) / looplen)), margins being
\* numframes - looplen, and that is the smallest count of at least one
\* whose total source length numframes + (reps - 1) * looplen is at least
\* duration_src.
C25_DurationReps ==
  lastop.op = "create_duration" =>
    LET n == note[Len(note)]
        s == SampleOf(n.sample)
        dsrc == DurationSrc(s, n.pitch16, lastop.k)
        r == n.repetitions
    IN /\ n.repsleft = r - 1
       /\ ~s.hasloop => r = 1
       /\ s.hasloop =>
            /\ r = Max(1, Ceil(dsrc - (s.numframes - s.looplen), s.looplen))
            /\ r >= 1
            /\ TotalLength(s, r) >= dsrc
            /\ r > 1 => TotalLength(s, r - 1) < dsrc

\* A looping note has been created by a duration that needs more than two
\* passes through the loop and is not a whole number of them.
C25_Witness ==
  /\ lastop.op = "create_duration"
  /\ Samples[note[Len(note)].sample].hasloop
  /\ note[Len(note)].repetitions >= 3
  /\ TotalLength(Samples[note[Len(note)].sample],
                 note[Len(note)].repetitions)
       > DurationSrc(Samples[note[Len(note)].sample],
                     note[Len(note)].pitch16, lastop.k)

\* =================================================================== C26
\* The buffers the file sink writes when it is left to run.
FileBuffers == Max(1, Ceil(lim.maxtime, FramesPerBuf))

\* C26: the run loop of the time-limited file sink returns FALSE by itself
\* when curtime has reached maxtime, whether or not the tick callback ever
\* asks to stop: it never writes more than max(1, ceil(maxtime /
\* framesperbuf)) buffers, it returns as soon as it has written that many,
\* and it has written exactly that many when it returns FALSE.
C26_FileSinkStops ==
  /\ written <= FileBuffers
  /\ curtime = written * FramesPerBuf
  /\ written = FileBuffers => (pc = "done" /\ loopres = "FALSE")
  /\ loopres = "FALSE" =>
       (written = FileBuffers /\ curtime >= lim.maxtime)

\* The sink has returned by itself after more than one buffer, with a
\* maxtime that is not a whole number of buffers.
C26_Witness ==
  /\ loopres = "FALSE"
  /\ pc = "done"
  /\ written >= 2
  /\ lim.maxtime % FramesPerBuf # 0
  /\ written = FileBuffers

\* ==================================================================== C22
RECURSIVE IdentityWalk(_, _, _, _)
\* The channel walk in which an attribute that is no 4-tuple of numbers
\* changes nothing, and the walk goes on to the parent.
IdentityWalk(chan, w, ct, et) ==
  LET a == ChanVolume(chan)
      wellformed == /\ a.found
                    /\ a.istuple
                    /\ Len(a.items) = 4
                    /\ \A k \in 1..4 : a.items[k].isnum
      w2 == IF wellformed THEN ApplyVolume(a, w, ct, et) ELSE w
  IN IF ChanParent(chan) = "None" THEN w2
     ELSE IdentityWalk(ChanParent(chan), w2, ct, et)

\* The buffer after the frame loop of note n with the volume and ranges w.
MixedWith(n, w) ==
  MixFrames(n, SampleOf(n.sample),
            [MixLocals(n, buffer, current_time, end_time) EXCEPT !.w = w],
            NoteStart(n.starttime, current_time)).buf

\* C22: a volume attribute that is missing, no tuple, of the wrong arity or
\* of elements that are no numbers is the identity for the note in this
\* buffer, and the attributes of the ancestors are still applied: mixing a
\* note leaves the buffer that the walk skipping such attributes gives.
C22_MalformedIsIdentity ==
  [][lastop'.op = "mix" =>
       LET n == note[queue[nptr]]
       IN buffer' = MixedWith(n, IdentityWalk(n.channel,
                       [volume |-> Frac(n.vol16, FracOne), ranges |-> <<>>],
                       current_time, end_time))
    ]_vars

\* ==================================================================== C23
\* Is a the volume (0, 0, v, v) of numbers?
ConstantVolume(a) ==
  /\ a.found
  /\ a.istuple
  /\ Len(a.items) = 4
  /\ \A k \in 1..4 : a.items[k].isnum
  /\ a.items[1] = PyInt(0)
  /\ a.items[2] = PyInt(0)
  /\ a.items[3] = a.items[4]

\* C23: a note on a channel of volume (0, 0, v, v) adds to every buffer, at
\* every current_time, what the same note adds with no channel and its own
\* volume multiplied by v, up to one unit in each output value.
C23_ConstantVolumeIsFactor ==
  [][lastop'.op = "mix" =>
       LET n == note[queue[nptr]]
           a == ChanVolume(n.channel)
       IN (n.channel = "root" /\ ConstantVolume(a)) =>
            LET v == PyFloat_AsDouble(a.items[4])
                ref == MixedWith(n, [volume |-> FMul(Frac(n.vol16, FracOne), v),
                                     ranges |-> <<>>])
            IN \A k \in DOMAIN buffer : Abs(buffer'[k] - ref[k]) <= 1
    ]_vars

\* ==================================================================== C24
\* Is a the fade (t0, t0 + 4096, 0.0, 1.0)?
Fade4096(a, t0) ==
  /\ a.found
  /\ a.istuple
  /\ Len(a.items) = 4
  /\ \A k \in 1..4 : a.items[k].isnum
  /\ a.items[1] = PyInt(t0)
  /\ a.items[2] = PyInt(t0 + 4096)
  /\ a.items[3] = PyFloat(0, 1)
  /\ a.items[4] = PyFloat(1, 1)

\* C24: in the fixed-point build a note of volume 1.0 on a channel of volume
\* (t0, t0 + 4096, 0.0, 1.0), mixed from frame 0 of the buffer that starts
\* at t0, has the gain i/4096 at frame i: each output value is the source
\* value times i/4096, within one unit.
C24_FadeGain ==
  [][lastop'.op = "mix" =>
       LET n == note[queue[nptr]]
           s == SampleOf(n.sample)
       IN (/\ IntMath
           /\ n.channel = "root"
           /\ Fade4096(ChanVolume("root"), current_time)
           /\ n.vol16 = FracOne /\ n.pitch16 = FracOne /\ n.shiftx = 0
           /\ n.starttime = current_time /\ n.framepos = 0
           /\ s.frnum = s.frden) =>
            \A i \in 0..(FramesPerBuf - 1) : \A side \in 1..2 :
              i < s.numframes - 1 =>
                LET got == buffer'[2 * i + side] - buffer[2 * i + side]
                IN Abs(got * 4096 - sampdata(s, i) * i) <= 4096
    ]_vars

\* ==================================================================== C21
\* C21: a note on a sample that is in error or not loaded, unloaded after
\* the note was queued included, is refused or adds only silence: no frame
\* of a note is ever mixed while its sample has no data.
C21_AbsentSampleSilent ==
  \A id \in DOMAIN hist : ~hist[id].absent

C40_HintLinked ==
  last_added = NULL \/ last_added \in Queued

\* A note was removed, and a later creation has set the hint again.
C40_Witness ==
  /\ last_added # NULL
  /\ last_added \in Queued
  /\ \E id \in DOMAIN hist : hist[id].removed # "no" /\ id < last_added

C33_ReadsInData ==
  [][lastop'.op \in {"mix", "fault"} =>
       LET n == note[queue[nptr]]
           s == SampleOf(n.sample)
       IN (/\ s.loaded
           /\ s.numframes >= 1
           /\ s.loopend <= s.numframes
           /\ n.framepos = 0) =>
            ~MixFrames(n, s, MixLocals(n, buffer, current_time, end_time),
                       NoteStart(n.starttime, current_time)).oob
    ]_vars

\* C32: when growing the ranges vector fails during noteq_generate, the
\* vector keeps valid storage whose allocated size is at least the recorded
\* capacity maxranges, so that a later generate writes no range outside it.
C32_RangesStorageCoversMax == rng.cap >= rng.max /\ ~rng.wild

\* ==================================================================== C39
\* Does x lie between a and b, the ends included?
Between(x, a, b) == (a <= x /\ x <= b) \/ (b <= x /\ x <= a)

\* C39: in the fixed-point build, for every range with start < end that a
\* note is mixed with and every frame time t of the buffer with
\* start < t < end, the interpolated gain lies between the start and the
\* end volume of the range, the ends included.
C39_RampWithinEnds ==
  [][lastop'.op = "mix" =>
       LET n == note[queue[nptr]]
           w == MixLocals(n, buffer, current_time, end_time).w
       IN IntMath =>
            \A k \in 1..Len(w.ranges) :
              \A t \in (current_time + NoteStart(n.starttime, current_time))
                         ..(end_time - 1) :
                LET r == w.ranges[k]
                IN (r.start < r.end /\ r.start < t /\ t < r.end) =>
                     Between(Intermed(r, t), r.istartvol, r.iendvol)
    ]_vars

\* ==================================================================== C35
\* C35: when generate is called again and again and the tick callback never
\* asks to stop, every note that is in the queue is out of it at some later
\* time, whatever its pitch.
C35_EveryNoteReaped ==
  \A id \in 1..(LiveOps + 1) : (id \in Queued) ~> (id \notin Queued)

\* The note at the smallest step and two notes created in the run have all
\* been reaped by the mixer.
C35_Witness ==
  /\ Len(hist) = 3
  /\ \A id \in 1..3 : hist[id].removed = "generate"
  /\ note[1].framepos = 1
  /\ \E id \in 2..3 : note[id].repetitions = 2

\* ==================================================================== C31
\* C31: when audev_init_device of the CoreAudio sink fails at any step, the
\* sink is left closed, with what the call allocated released: audevice is
\* unknown, so that a following audev_loop reports `not open' and a
\* following audev_init_device is not refused as `already open'.
C31_FailedInitLeavesClosed ==
  [][(/\ IsCoreAudio
      /\ lastop'.op = "init"
      /\ ~lastop'.res
      /\ lastop'.dev # "already") =>
       (audevice' = "unknown" /\ pc' = "closed")]_vars

\* ==================================================================== C36
\* The device will never take slot bx: the slot is not in the queue and no
\* callback is under way for it, or the one start of the device has failed.
Stranded(bx) ==
  \/ /\ \A i \in 1..Len(aqueue.queued) : aqueue.queued[i] # bx
     /\ ~(cpc # "idle" /\ cslot = bx)
  \/ started /\ ~devrun

\* C36: whenever audev_loop of the AudioQueue sink has returned, it holds
\* the mutex of no slot and leaves no slot marked full that the device will
\* never take, so that a following audev_close_device does not wait for
\* ever.
C36_LoopReturnsClean ==
  (IsAudioQueue /\ pc = "returned") =>
    \A bx \in 0..(bufcount - 1) :
      /\ mutex[bx] # "mixer"
      /\ slots[bx].full => ~Stranded(bx)

\* ==================================================================== C37
\* C37: when audev_init_device of the AudioQueue sink succeeds after a
\* close, the run loop works again: bailing is clear, so that audev_loop
\* calls mixfunc instead of returning at once.
C37_ReopenClearsBailing ==
  [][(IsAudioQueue /\ lastop'.op = "init" /\ lastop'.res) => ~bailing']_vars

\* ==================================================================== C38
\* A call of AudioDeviceStart or AudioQueueStart is made in this step: by
\* the run loop, or by a close that finds started clear.
StartAttempt ==
  \/ lastop'.op = "ca_start"
  \/ lastop'.op = "close" /\ ~started

\* C38: the device is started once in a session: a start is asked for only
\* while started is clear and the device is not running, and sets started;
\* the run loop asks for it when filling is back at 0 with every slot full;
\* started is cleared by audev_init_device alone; the device runs, and a
\* callback is under way, only after a start; a close that has gone
\* through leaves started set.
C38_StartedOncePerSession ==
  [][/\ StartAttempt => (~started /\ ~devrun /\ started')
     /\ lastop'.op = "ca_start" =>
          (filling = 0 /\ \A bx \in 0..(bufcount - 1) : slots[bx].full)
     /\ (devrun' /\ ~devrun) => (StartAttempt /\ lastop'.res)
     /\ (started /\ ~started') => lastop'.op = "init"
     /\ cpc' # "idle" => started'
     /\ lastop'.op = "cl_stop" => started
    ]_vars

\* The run loop has filled every slot and started the device, the device
\* has called back for every buffer written, and the sink has been closed.
C38_Witness ==
  /\ pc = "closed"
  /\ started
  /\ written >= bufcount
  /\ Len(out) = written

====
